---- MODULE Spec2Model ----
(***************************************************************************)
(* A model of threatmate/restfulwrapper: the value parser, the built-in    *)
(* field directives, the analysis of a handler and its metadata record,    *)
(* and the dispatch of a request (bind, invoke, render).                   *)
(*                                                                         *)
(* A Go string is a sequence of tokens (TLA+ strings).  Separators and     *)
(* digits are always tokens of their own, so splitting, trimming and       *)
(* number parsing work on the sequence as the code works on the bytes.     *)
(***************************************************************************)
EXTENDS Integers, Sequences, FiniteSets, TLC

VARIABLES
    info,          \* the route descriptor Register built (NoInfo before)
    parseError,    \* the error of ParseRestfulFunction ("" when none)
    pc,            \* where the dispatch of the current request stands
    req,           \* the request being dispatched
    inputValue,    \* the metadata record being built: field name -> value
    idx,           \* index of the next entry of info.InputFields to run
    executed,      \* history: indices of the binders run for this request
    calls,         \* history: number of handler invocations for this request
    phases,        \* history: the phases entered for this request
    methodResults, \* what the handler returned
    err,           \* the error functionWithError returns to the wrapper
    writes,        \* the writes made to the response of this request
    errorHandler,  \* the ErrorHandler the route's function was created with
    handled,       \* history: the errors the ErrorHandler was called with
    method,        \* the method Register analysed (NoFunction before)
    wrappers,      \* the RestfulWrapper values made so far
    heap,          \* the maps and backing arrays the wrappers refer to
    acted,         \* history: the wrapper the last call was made on
    routes,        \* the routes handed to the restful.WebService
    panicValue,    \* the value RestfulWrapper.Register panicked with ("" when none)
    registered,    \* history: the RestfulWrapper.Register calls made
    functionMap,   \* registeredFunctionMap as Register (register.go) builds it
    tagCalls,      \* history: the Register (register.go) calls and how they ended
    builders,      \* the routes built from the wrappers, with what each captured
    seen,          \* what the filters of a route gave the last request to it
    parsing,       \* a call of parseStringToSingleValue: its input and its outcome
    dispatches,    \* the dispatches of the requests a route serves at the same time
    records        \* the metadata records allocated for those dispatches

dispatchVars ==
    <<info, parseError, pc, req, inputValue, idx, executed, calls, phases,
      methodResults, err, writes, errorHandler, handled, method>>
wrapperVars == <<wrappers, heap, acted>>
registrarVars == <<routes, panicValue, registered>>
registryVars == <<functionMap, tagCalls>>
serveVars == <<builders, seen>>
parseVars == <<parsing>>
concurrentVars == <<dispatches, records>>

vars ==
    <<dispatchVars, wrapperVars, registrarVars, registryVars, serveVars, parseVars,
      concurrentVars>>

-----------------------------------------------------------------------------
(* Strings *)

EmptyText == <<>>

RECURSIVE Str(_)
\* The Go string a token sequence stands for.
Str(text) == IF text = <<>> THEN "" ELSE Head(text) \o Str(Tail(text))

RECURSIVE IndexOf(_, _, _)
\* Position of the first occurrence of sep in text at or after i, 0 if none.
IndexOf(text, sep, i) ==
    IF i > Len(text) THEN 0
    ELSE IF text[i] = sep THEN i
    ELSE IndexOf(text, sep, i + 1)

\* strings.SplitN(text, sep, 2)
SplitN2(text, sep) ==
    LET i == IndexOf(text, sep, 1)
    IN  IF i = 0 THEN <<text>>
        ELSE <<SubSeq(text, 1, i - 1), SubSeq(text, i + 1, Len(text))>>

RECURSIVE Split(_, _)
\* strings.Split(text, sep)
Split(text, sep) ==
    LET i == IndexOf(text, sep, 1)
    IN  IF i = 0 THEN <<text>>
        ELSE <<SubSeq(text, 1, i - 1)>> \o Split(SubSeq(text, i + 1, Len(text)), sep)

RECURSIVE TrimLeft(_, _)
\* strings.TrimLeft(text, cutset) for a cutset given as a set of tokens
TrimLeft(text, cutset) ==
    IF text # <<>> /\ Head(text) \in cutset THEN TrimLeft(Tail(text), cutset) ELSE text

RECURSIVE TrimRight(_, _)
\* strings.TrimRight(text, cutset)
TrimRight(text, cutset) ==
    IF text # <<>> /\ text[Len(text)] \in cutset
    THEN TrimRight(SubSeq(text, 1, Len(text) - 1), cutset)
    ELSE text

\* strings.TrimSpace(text)
TrimSpace(text) == TrimRight(TrimLeft(text, {" "}), {" "})

\* slices.Contains
Contains(seq, x) == \E i \in 1..Len(seq) : seq[i] = x

-----------------------------------------------------------------------------
(* Errors.  An error value is a record; unwrap lists what Unwrap returns   *)
(* (one error for Unwrap() error, several for Unwrap() []error).  writer   *)
(* names the WriteError implementation of the error's type, "none" when    *)
(* the type does not implement ErrorWriter.                                *)

NoError == [type |-> "<nil>", msg |-> "", writer |-> "none", param |-> EmptyText,
            code |-> 0, unwrap |-> <<>>]

\* errors.New(msg) / fmt.Errorf(msg) without %w
PlainError(msg) ==
    [type |-> "*errors.errorString", msg |-> msg, writer |-> "none",
     param |-> EmptyText, code |-> 0, unwrap |-> <<>>]

\* fmt.Errorf(prefix + "%w", inner)
WrapError(prefix, inner) ==
    [type |-> "*fmt.wrapError", msg |-> prefix \o inner.msg, writer |-> "none",
     param |-> EmptyText, code |-> 0, unwrap |-> <<inner>>]

\* The *strconv.NumError the strconv parsers return.
NumError(func, text, why) ==
    [type |-> "*strconv.NumError",
     msg |-> "strconv." \o func \o ": parsing \"" \o Str(text) \o "\": " \o why,
     writer |-> "none", param |-> EmptyText, code |-> 0,
     unwrap |-> <<PlainError(why)>>]

StatusBadRequest == 400
StatusInternalServerError == 500
StatusOK == 200
StatusForbidden == 403

\* httperror.ErrorFromStatus(code): an *httperror.Error carrying the code.
ErrorFromStatus(code) ==
    [type |-> "*httperror.Error", msg |-> "http status", writer |-> "none",
     param |-> EmptyText, code |-> code, unwrap |-> <<>>]

IsErrorWriter(e) == e.writer # "none"
IsHTTPError(e) == e.type = "*httperror.Error"

\* Whether error e can be assigned to a target of the given type.
AssignableTo(e, target) ==
    IF target = "ErrorWriter" THEN IsErrorWriter(e) ELSE IsHTTPError(e)

\* A search that looks at the error itself only.
ErrorsAsShallow(e, target) == IF AssignableTo(e, target) THEN e ELSE NoError

RECURSIVE ErrorsAs(_, _)
RECURSIVE FirstAs(_, _, _)
\* errors.As over the list of errors an Unwrap() []error returned.
FirstAs(list, i, target) ==
    IF i > Len(list) THEN NoError
    ELSE LET found == ErrorsAs(list[i], target)
         IN  IF found # NoError THEN found ELSE FirstAs(list, i + 1, target)

\* errors.As(e, &target): the first error of e's tree, depth first and in
\* Unwrap order with e itself first, that is assignable to the target;
\* NoError if there is none.
ErrorsAs(e, target) ==
    IF e = NoError THEN NoError
    ELSE IF AssignableTo(e, target) THEN e
    ELSE FirstAs(e.unwrap, 1, target)

\* The APIResponseError NewAPI...Error embeds and NewAPIResponseError returns.
APIResponseError(message, httpError) ==
    [type |-> "*restfulwrapper.APIResponseError", msg |-> message,
     writer |-> "response", param |-> EmptyText, code |-> 0,
     unwrap |-> IF httpError = NoError THEN <<>> ELSE <<httpError>>]

\* A status that is always 500.
CodeInternalServerError(e) == StatusInternalServerError

\* (*APIResponseError).Code
Code(e) ==
    LET httpError == FirstAs(e.unwrap, 1, "*httperror.Error")
    IN  IF httpError = NoError THEN StatusInternalServerError ELSE httpError.code

NewAPIResponseError(code, message) ==
    APIResponseError(message, ErrorFromStatus(code))

NewAPIBodyError(bodyError) ==
    [type |-> "*restfulwrapper.APIBodyError", msg |-> bodyError.msg,
     writer |-> "body", param |-> EmptyText, code |-> 0,
     unwrap |-> <<bodyError,
                  APIResponseError(bodyError.msg, ErrorFromStatus(StatusBadRequest))>>]

NewAPIHeaderParameterError(parameter, parameterError) ==
    [type |-> "*restfulwrapper.APIHeaderParameterError", msg |-> parameterError.msg,
     writer |-> "header", param |-> parameter, code |-> 0,
     unwrap |-> <<parameterError,
                  APIResponseError(parameterError.msg, ErrorFromStatus(StatusBadRequest))>>]

NewAPIPathParameterError(parameter, parameterError) ==
    [type |-> "*restfulwrapper.APIPathParameterError", msg |-> parameterError.msg,
     writer |-> "path", param |-> parameter, code |-> 0,
     unwrap |-> <<parameterError,
                  APIResponseError(parameterError.msg, ErrorFromStatus(StatusBadRequest))>>]

NewAPIQueryParameterError(parameter, parameterError) ==
    [type |-> "*restfulwrapper.APIQueryParameterError", msg |-> parameterError.msg,
     writer |-> "query", param |-> parameter, code |-> 0,
     unwrap |-> <<parameterError,
                  APIResponseError(parameterError.msg, ErrorFromStatus(StatusBadRequest))>>]

-----------------------------------------------------------------------------
(* The value parser (parsestringvalue.go). *)

Digits == {"0", "1", "2", "3", "4", "5", "6", "7", "8", "9"}

DigitValue ==
    [d \in Digits |->
        CASE d = "0" -> 0 [] d = "1" -> 1 [] d = "2" -> 2 [] d = "3" -> 3
          [] d = "4" -> 4 [] d = "5" -> 5 [] d = "6" -> 6 [] d = "7" -> 7
          [] d = "8" -> 8 [] d = "9" -> 9]

SignedKinds == {"int", "int8", "int16", "int32", "int64"}
UnsignedKinds == {"uint", "uint8", "uint16", "uint32", "uint64"}

\* reflect.Type.Bits() of an integer kind (int and uint are 64 bits wide).
Bits(kind) ==
    CASE kind \in {"int8", "uint8"} -> 8
      [] kind \in {"int16", "uint16"} -> 16
      [] kind \in {"int32", "uint32"} -> 32
      [] OTHER -> 64

\* The decimal digits of 2^bits - 1, the largest unsigned value of that width.
MaxUnsigned(bits) ==
    CASE bits = 8 -> <<"2", "5", "5">>
      [] bits = 16 -> <<"6", "5", "5", "3", "5">>
      [] bits = 32 -> <<"4", "2", "9", "4", "9", "6", "7", "2", "9", "5">>
      [] OTHER -> <<"1", "8", "4", "4", "6", "7", "4", "4", "0", "7", "3", "7", "0",
                    "9", "5", "5", "1", "6", "1", "5">>

\* The decimal digits of 2^(bits-1), the cutoff of ParseInt.
Cutoff(bits) ==
    CASE bits = 8 -> <<"1", "2", "8">>
      [] bits = 16 -> <<"3", "2", "7", "6", "8">>
      [] bits = 32 -> <<"2", "1", "4", "7", "4", "8", "3", "6", "4", "8">>
      [] OTHER -> <<"9", "2", "2", "3", "3", "7", "2", "0", "3", "6", "8", "5", "4",
                    "7", "7", "5", "8", "0", "8">>

\* A digit sequence without its leading zeros ("0" for zero).
Magnitude(digits) ==
    LET m == TrimLeft(digits, {"0"}) IN IF m = <<>> THEN <<"0">> ELSE m

RECURSIVE DigitsLess(_, _, _)
\* a < b for two digit sequences of the same length, compared from position i.
DigitsLess(a, b, i) ==
    IF i > Len(a) THEN FALSE
    ELSE IF DigitValue[a[i]] # DigitValue[b[i]] THEN DigitValue[a[i]] < DigitValue[b[i]]
    ELSE DigitsLess(a, b, i + 1)

\* a < b for two magnitudes (no leading zeros).
MagnitudeLess(a, b) ==
    IF Len(a) # Len(b) THEN Len(a) < Len(b) ELSE DigitsLess(a, b, 1)

AllDigits(text) == \A i \in 1..Len(text) : text[i] \in Digits

\* ParseUint without the check of the range.
ParseUintUnchecked(s, bits) ==
    IF s = <<>> \/ ~AllDigits(s)
    THEN [err |-> NumError("ParseUint", s, "invalid syntax"), value |-> <<"0">>]
    ELSE [err |-> NoError, value |-> Magnitude(s)]

\* strconv.ParseUint(s, 10, bits): [err, value]; the value is a magnitude.
ParseUint(s, bits) ==
    IF s = <<>> \/ ~AllDigits(s)
    THEN [err |-> NumError("ParseUint", s, "invalid syntax"), value |-> <<"0">>]
    ELSE IF MagnitudeLess(MaxUnsigned(bits), Magnitude(s))
    THEN [err |-> NumError("ParseUint", s, "value out of range"),
          value |-> MaxUnsigned(bits)]
    ELSE [err |-> NoError, value |-> Magnitude(s)]

\* strconv.ParseInt(s, 10, bits): [err, value]; the value is a magnitude with
\* a leading "-" when negative.
ParseInt(s, bits) ==
    IF s = <<>> THEN [err |-> NumError("ParseInt", s, "invalid syntax"), value |-> <<"0">>]
    ELSE
    LET neg  == Head(s) = "-"
        rest == IF Head(s) \in {"+", "-"} THEN Tail(s) ELSE s
        Signed(un) ==
            IF rest = <<>> \/ ~AllDigits(rest)
            THEN [err |-> NumError("ParseInt", s, "invalid syntax"), value |-> <<"0">>]
            ELSE IF \/ ~neg /\ ~MagnitudeLess(un.value, Cutoff(bits))
                    \/ neg /\ MagnitudeLess(Cutoff(bits), un.value)
                    \/ un.err # NoError
            THEN [err |-> NumError("ParseInt", s, "value out of range"), value |-> <<"0">>]
            ELSE [err |-> NoError,
                  value |-> IF neg /\ un.value # <<"0">> THEN <<"-">> \o un.value
                            ELSE un.value]
    IN  Signed(ParseUint(rest, bits))

\* strconv.ParseBool(s)
ParseBool(s) ==
    IF Len(s) = 1 /\ s[1] \in {"1", "t", "T", "TRUE", "true", "True"}
    THEN [err |-> NoError, value |-> <<"true">>]
    ELSE IF Len(s) = 1 /\ s[1] \in {"0", "f", "F", "FALSE", "false", "False"}
    THEN [err |-> NoError, value |-> <<"false">>]
    ELSE [err |-> NumError("ParseBool", s, "invalid syntax"), value |-> <<"false">>]

\* The ParseString of the user type of kind "parser" (a ParameterParser): it
\* accepts the one-token names of an enumeration.
UserParseString(s) ==
    IF Len(s) = 1 /\ s[1] \in {"red", "green"} THEN NoError
    ELSE PlainError("unknown colour")

\* The branches "v, err := strconv.Parse...; if err != nil { return err };
\* target.Set...(v)": the target is written exactly when the parse succeeded.
StoreIfParsed(r) == [err |-> r.err, set |-> r.err = NoError, value |-> r.value]

\* parseStringToSingleValue(stringValue, target).  target is
\* [pointer, kind]: whether a non-nil pointer was passed, and the kind it
\* points to.  The result is [err, set, value]: set says whether the target
\* was written and value what was stored.
parseStringToSingleValue(stringValue, target) ==
    IF ~target.pointer
    THEN [err |-> PlainError("invalid target: needed pointer, got " \o target.kind),
          set |-> FALSE, value |-> <<>>]
    ELSE IF target.kind = "parser"
    THEN LET Parsed(e) ==
                 IF e # NoError
                 THEN [err |-> WrapError("could not parse string value: ", e),
                       set |-> FALSE, value |-> <<>>]
                 ELSE [err |-> NoError, set |-> TRUE, value |-> stringValue]
         IN  Parsed(UserParseString(stringValue))
    ELSE IF target.kind = "bool"
    THEN StoreIfParsed(ParseBool(stringValue))
    ELSE IF target.kind \in SignedKinds
    THEN StoreIfParsed(ParseInt(stringValue, Bits(target.kind)))
    ELSE IF target.kind = "string"
    THEN [err |-> NoError, set |-> TRUE, value |-> stringValue]
    ELSE IF target.kind \in UnsignedKinds
    THEN StoreIfParsed(ParseUint(stringValue, Bits(target.kind)))
    ELSE [err |-> PlainError("could not parse to single value: unhandled kind: "
                             \o target.kind),
          set |-> FALSE, value |-> <<>>]

-----------------------------------------------------------------------------
(* Types and struct fields as reflection shows them. *)

\* A reflect.Type: its String(), its Kind() and, for a slice or a pointer,
\* the kind of its element.
Type(name, kind, elem) == [name |-> name, kind |-> kind, elem |-> elem]

TString == Type("string", "string", "")
TInt == Type("int", "int", "")
TUint8 == Type("uint8", "uint8", "")
TBool == Type("bool", "bool", "")
TIntSlice == Type("[]int", "slice", "int")
TIntPointer == Type("*int", "pointer", "int")
TColour == Type("main.Colour", "parser", "")
TMap == Type("map[string]string", "map", "")
TBytes == Type("[]byte", "slice", "uint8")
TURLValues == Type("url.Values", "map", "")
TURLValuesPointer == Type("*url.Values", "pointer", "map")
TMultipartForm == Type("multipart.Form", "struct", "")
THTTPRequest == Type("*http.Request", "pointer", "struct")

\* A reflect.StructField: Name, Type, Anonymous, the struct tags api,
\* description and default (hasDefault: Tag.Lookup found it), and, for an
\* embedded struct, the fields of its type.
Field(name, type, api, description) ==
    [Name |-> name, Type |-> type, Anonymous |-> FALSE, Fields |-> <<>>,
     api |-> api, description |-> description, hasDefault |-> FALSE,
     default |-> EmptyText]

WithDefault(field, text) == [field EXCEPT !.hasDefault = TRUE, !.default = text]

Embedded(name, fields) ==
    [Name |-> name, Type |-> Type(name, "struct", ""), Anonymous |-> TRUE,
     Fields |-> fields, api |-> EmptyText, description |-> "",
     hasDefault |-> FALSE, default |-> EmptyText]

-----------------------------------------------------------------------------
(* The route descriptor (info.go). *)

NoFunction == [In |-> <<>>, Out |-> <<>>, Metadata |-> <<>>]

\* The RestfulFunctionInfo ParseRestfulFunction starts from.
NewInfo(f) ==
    [FunctionValue |-> f,
     InContextPosition |-> -1, InMetadataPosition |-> -1,
     OutErrorPosition |-> -1, OutResponsePosition |-> -1,
     HTTPMethod |-> EmptyText, HTTPPath |-> EmptyText, Doc |-> "", Notes |-> "",
     PathParameters |-> <<>>, QueryParameters |-> <<>>, HeaderParameters |-> <<>>,
     BodyExample |-> "", ResponseExample |-> "",
     Consumes |-> <<>>, Produces |-> <<>>,
     InputFields |-> <<>>]

NoInfo == NewInfo(NoFunction)

\* What a RegisterFunction returns: the error ("" for nil), the descriptor as
\* it left it, and the InputFieldFunction (a closure: the directive, the
\* values it captured).
FactoryResult(error, inf, fn) == [err |-> error, info |-> inf, fn |-> fn]

Closure(key, arg, field, names, allowEmpty) ==
    [key |-> key, arg |-> arg, field |-> field, names |-> names,
     allowEmpty |-> allowEmpty]

NoClosure == Closure("", EmptyText, Field("", TString, EmptyText, ""), <<>>, FALSE)

\* slices.ContainsFunc(parameters, func(item) bool { return item.Name == name })
HasName(parameters, name) == \E i \in 1..Len(parameters) : parameters[i].Name = name

FormURLEncoded == <<"application", "/", "x-www-form-urlencoded">>
MultipartFormData == <<"multipart", "/", "form-data">>

RECURSIVE BodyTagParts(_, _, _)
\* The loop of the body factory over the parts of its tag value; acc is
\* [err, consumes, allowEmpty].
BodyTagParts(tagParts, i, acc) ==
    IF i > Len(tagParts) THEN acc
    ELSE
    LET tagPartParts == SplitN2(tagParts[i], ":")
        tagPartKey   == Str(tagPartParts[1])
        tagPartValue == IF Len(tagPartParts) > 1 THEN tagPartParts[2] ELSE EmptyText
        valueParts   == Split(tagPartValue, ",")
    IN  IF tagPartKey = "consumes"
        THEN BodyTagParts(tagParts, i + 1,
                 [acc EXCEPT !.consumes =
                     @ \o [k \in 1..Len(valueParts) |-> TrimSpace(valueParts[k])]])
        ELSE IF tagPartKey = "empty"
        THEN IF tagPartValue # EmptyText
             THEN [acc EXCEPT !.err = "invalid body tag value for empty: "
                                         \o Str(tagPartValue)]
             ELSE BodyTagParts(tagParts, i + 1, [acc EXCEPT !.allowEmpty = TRUE])
        ELSE [acc EXCEPT !.err = "invalid body tag: " \o tagPartKey]

\* A factory that takes the consumes list as declared and accepts every
\* field type.
BodyFactoryUnchecked(apiTagValue, field, inf) ==
    LET Parsed(parsed) ==
            IF parsed.err # "" THEN FactoryResult(parsed.err, inf, NoClosure)
            ELSE FactoryResult("", [inf EXCEPT !.Consumes = parsed.consumes],
                     Closure("body", apiTagValue, field, <<>>, parsed.allowEmpty))
    IN  Parsed(IF Len(apiTagValue) > 0
               THEN BodyTagParts(Split(apiTagValue, ";"), 1,
                        [err |-> "", consumes |-> <<>>, allowEmpty |-> FALSE])
               ELSE [err |-> "", consumes |-> <<>>, allowEmpty |-> FALSE])

\* Register("body", ...): the factory.
BodyFactory(apiTagValue, field, inf) ==
    LET Checked(parsed, inf2) ==
            IF /\ Contains(inf2.Consumes, FormURLEncoded)
               /\ field.Type.name \notin {"url.Values", "*url.Values"}
            THEN FactoryResult(
                     "invalid type for content-type application/x-www-form-urlencoded: "
                     \o field.Type.name, inf2, NoClosure)
            ELSE IF /\ Contains(inf2.Consumes, MultipartFormData)
                    /\ field.Type.name \notin {"multipart.Form", "*multipart.Form"}
            THEN FactoryResult("invalid type for content-type multipart/form-data: "
                               \o field.Type.name, inf2, NoClosure)
            ELSE FactoryResult("", inf2,
                     Closure("body", apiTagValue, field, <<>>, parsed.allowEmpty))
        Parsed(parsed) ==
            LET example == IF parsed.allowEmpty THEN inf.BodyExample ELSE field.Type.name
                special == IF parsed.consumes # <<>> THEN parsed.consumes
                           ELSE IF field.Type.name \in {"url.Values", "*url.Values"}
                           THEN <<FormURLEncoded>>
                           ELSE IF field.Type.name \in {"multipart.Form", "*multipart.Form"}
                           THEN <<MultipartFormData>>
                           ELSE parsed.consumes
            IN  IF parsed.err # "" THEN FactoryResult(parsed.err, inf, NoClosure)
                ELSE Checked(parsed,
                         [inf EXCEPT !.BodyExample = example, !.Consumes = special])
    IN  Parsed(IF Len(apiTagValue) > 0
               THEN BodyTagParts(Split(apiTagValue, ";"), 1,
                        [err |-> "", consumes |-> <<>>, allowEmpty |-> FALSE])
               ELSE [err |-> "", consumes |-> <<>>, allowEmpty |-> FALSE])

\* Register("doc", ...) and Register("notes", ...): the factories.
DocFactory(apiTagValue, field, inf) ==
    IF apiTagValue # EmptyText
    THEN FactoryResult("unexpected tag value: " \o Str(apiTagValue), inf, NoClosure)
    ELSE IF field.Type.kind # "string"
    THEN FactoryResult("bad kind: " \o field.Type.kind, inf, NoClosure)
    ELSE FactoryResult("", [inf EXCEPT !.Doc = field.description],
                       Closure("doc", apiTagValue, field, <<>>, FALSE))

NotesFactory(apiTagValue, field, inf) ==
    IF apiTagValue # EmptyText
    THEN FactoryResult("unexpected tag value: " \o Str(apiTagValue), inf, NoClosure)
    ELSE IF field.Type.kind # "string"
    THEN FactoryResult("bad kind: " \o field.Type.kind, inf, NoClosure)
    ELSE FactoryResult("", [inf EXCEPT !.Notes = field.description],
                       Closure("notes", apiTagValue, field, <<>>, FALSE))

\* Register("header", ...): the factory.
HeaderFactory(apiTagValue, field, inf) ==
    IF apiTagValue = EmptyText THEN FactoryResult("missing tag value", inf, NoClosure)
    ELSE IF HasName(inf.HeaderParameters, apiTagValue)
    THEN FactoryResult("duplicate header tag", inf, NoClosure)
    ELSE FactoryResult("",
             [inf EXCEPT !.HeaderParameters =
                 Append(@, [FieldName |-> field.Name, Name |-> apiTagValue,
                            Description |-> field.description,
                            AllowMultiple |-> FALSE])],
             Closure("header", apiTagValue, field, <<>>, FALSE))

\* Register("httpmethod", ...): the factory.
HTTPMethodFactory(apiTagValue, field, inf) ==
    IF apiTagValue = EmptyText THEN FactoryResult("missing tag value: ", inf, NoClosure)
    ELSE IF field.Type.kind # "string"
    THEN FactoryResult("bad kind: " \o field.Type.kind, inf, NoClosure)
    ELSE FactoryResult("", [inf EXCEPT !.HTTPMethod = apiTagValue],
                       Closure("httpmethod", apiTagValue, field, <<>>, FALSE))

\* Register("httppath", ...): the factory.
HTTPPathFactory(apiTagValue, field, inf) ==
    IF apiTagValue = EmptyText THEN FactoryResult("missing tag value: ", inf, NoClosure)
    ELSE IF field.Type.kind # "string"
    THEN FactoryResult("bad kind: " \o field.Type.kind, inf, NoClosure)
    ELSE FactoryResult("", [inf EXCEPT !.HTTPPath = apiTagValue],
                       Closure("httppath", apiTagValue, field, <<>>, FALSE))

\* Register("httprequest", ...) and Register("restfulrequest", ...).
HTTPRequestFactory(apiTagValue, field, inf) ==
    IF apiTagValue # EmptyText
    THEN FactoryResult("unexpected tag value: " \o Str(apiTagValue), inf, NoClosure)
    ELSE IF field.Type.name # "*http.Request"
    THEN FactoryResult("bad type: " \o field.Type.name, inf, NoClosure)
    ELSE FactoryResult("", inf, Closure("httprequest", apiTagValue, field, <<>>, FALSE))

RestfulRequestFactory(apiTagValue, field, inf) ==
    IF apiTagValue # EmptyText
    THEN FactoryResult("unexpected tag value: " \o Str(apiTagValue), inf, NoClosure)
    ELSE IF field.Type.name # "*restful.Request"
    THEN FactoryResult("bad type: " \o field.Type.name, inf, NoClosure)
    ELSE FactoryResult("", inf, Closure("restfulrequest", apiTagValue, field, <<>>, FALSE))

\* Register("path", ...): the factory.
PathFactory(apiTagValue, field, inf) ==
    IF apiTagValue = EmptyText THEN FactoryResult("missing tag value", inf, NoClosure)
    ELSE IF HasName(inf.PathParameters, apiTagValue)
    THEN FactoryResult("duplicate path tag", inf, NoClosure)
    ELSE FactoryResult("",
             [inf EXCEPT !.PathParameters =
                 Append(@, [FieldName |-> field.Name, Name |-> apiTagValue,
                            Description |-> field.description,
                            AllowMultiple |-> FALSE])],
             Closure("path", apiTagValue, field, <<>>, FALSE))

\* Register("produces", ...): the factory.
ProducesFactory(apiTagValue, field, inf) ==
    IF apiTagValue = EmptyText THEN FactoryResult("missing tag value", inf, NoClosure)
    ELSE IF field.Type.name # "string"
    THEN FactoryResult("bad type: " \o field.Type.name, inf, NoClosure)
    ELSE FactoryResult("", [inf EXCEPT !.Produces = Append(@, apiTagValue)],
                       Closure("produces", apiTagValue, field, <<>>, FALSE))

\* Register("query", ...): the factory.
QueryFactory(apiTagValue, field, inf) ==
    IF apiTagValue = EmptyText THEN FactoryResult("missing tag value", inf, NoClosure)
    ELSE
    LET split == Split(apiTagValue, ",")
        names == [i \in 1..Len(split) |-> TrimSpace(split[i])]
        primaryName == names[1]
        multiple == field.Type.kind = "slice"
        params == [i \in 1..Len(names) |->
                     [FieldName |-> field.Name, Name |-> names[i],
                      Description |-> IF i = 1 THEN field.description
                                      ELSE "Deprecated; use \"" \o Str(primaryName)
                                           \o "\" instead.",
                      AllowMultiple |-> multiple]]
    IN  IF \E i \in 1..Len(names) : HasName(inf.QueryParameters, names[i])
        THEN LET first == CHOOSE i \in 1..Len(names) :
                              /\ HasName(inf.QueryParameters, names[i])
                              /\ \A j \in 1..(i - 1) : ~HasName(inf.QueryParameters, names[j])
             IN  FactoryResult("duplicate query tag: " \o Str(names[first]), inf, NoClosure)
        ELSE FactoryResult("", [inf EXCEPT !.QueryParameters = @ \o params],
                           Closure("query", apiTagValue, field, names, FALSE))

\* registeredFunctionMap once the package's init has run: the keys.
registeredFunctionMap ==
    {"body", "doc", "header", "httpmethod", "httppath", "httprequest", "notes",
     "path", "produces", "query", "restfulrequest"}

\* registeredFunctionMap[apiTagKey](apiTagValue, field, info)
RegisteredFunction(apiTagKey, apiTagValue, field, inf) ==
    CASE apiTagKey = "body" -> BodyFactory(apiTagValue, field, inf)
      [] apiTagKey = "doc" -> DocFactory(apiTagValue, field, inf)
      [] apiTagKey = "header" -> HeaderFactory(apiTagValue, field, inf)
      [] apiTagKey = "httpmethod" -> HTTPMethodFactory(apiTagValue, field, inf)
      [] apiTagKey = "httppath" -> HTTPPathFactory(apiTagValue, field, inf)
      [] apiTagKey = "httprequest" -> HTTPRequestFactory(apiTagValue, field, inf)
      [] apiTagKey = "notes" -> NotesFactory(apiTagValue, field, inf)
      [] apiTagKey = "path" -> PathFactory(apiTagValue, field, inf)
      [] apiTagKey = "produces" -> ProducesFactory(apiTagValue, field, inf)
      [] apiTagKey = "query" -> QueryFactory(apiTagValue, field, inf)
      [] OTHER -> RestfulRequestFactory(apiTagValue, field, inf)

-----------------------------------------------------------------------------
(* Analysis of a handler (ParseRestfulFunction, handleField).  A handler is *)
(* [In, Out, Metadata]: the types of its parameters, the types of its       *)
(* results and the fields of the struct its metadata parameter is, or       *)
(* points to.                                                               *)

TContext == Type("context.Context", "interface", "")
TError == Type("error", "interface", "")
TMetadata == Type("main.Metadata", "struct", "")
TMetadataPointer == Type("*main.Metadata", "pointer", "struct")
TOutput == Type("main.Output", "struct", "")
TAny == Type("interface {}", "interface", "")
TOutputPointer == Type("*main.Output", "pointer", "struct")

\* argumentType.Implements(contextType)
ImplementsContext(type) == type.name = "context.Context"
\* argumentType.Implements(errorType)
ImplementsError(type) == type.name \in {"error", "*main.CustomError"}

\* What the analysis returns: the error ("" for nil) and the descriptor.
ParseResult(error, inf) == [err |-> error, info |-> inf]

\* An InputField: the name of the struct field and the function that
\* fills it in.
InputField(name, function) == [Name |-> name, Function |-> function]

\* A list built back to front.
PrependInputField(inputFields, inputField) == <<inputField>> \o inputFields

\* info.InputFields = append(info.InputFields, inputField)
AppendInputField(inputFields, inputField) == Append(inputFields, inputField)

\* A directive "-" is looked up as any other key.
NeverSkipped(apiTagKey) == FALSE

\* apiTagKey == "-": the field is left out on purpose.
IsSkippedKey(apiTagKey) == apiTagKey = "-"

RECURSIVE handleField(_, _)
RECURSIVE handleFields(_, _, _)
\* Only the first field of an embedded struct is handled.
handleFieldsFirst(inf, fields, i) ==
    IF fields = <<>> THEN ParseResult("", inf) ELSE handleField(inf, fields[1])

\* The loop of handleField over the fields of an embedded struct.
handleFields(inf, fields, i) ==
    IF i > Len(fields) THEN ParseResult("", inf)
    ELSE LET Handled(r) == IF r.err # "" THEN r ELSE handleFields(r.info, fields, i + 1)
         IN  Handled(handleField(inf, fields[i]))

\* handleField(info, field)
handleField(inf, field) ==
    IF field.Anonymous THEN handleFields(inf, field.Fields, 1)
    ELSE IF field.api = EmptyText THEN ParseResult("", inf)
    ELSE
    LET Made(made) ==
            IF made.err # ""
            THEN ParseResult(field.Name \o ": " \o made.err, made.info)
            ELSE IF made.fn # NoClosure
            THEN ParseResult("", [made.info EXCEPT !.InputFields =
                                     AppendInputField(@, InputField(field.Name, made.fn))])
            ELSE ParseResult("", made.info)
        Tagged(apiTagKey, apiTagValue) ==
            IF IsSkippedKey(apiTagKey) THEN ParseResult("", inf)
            ELSE IF apiTagKey \notin registeredFunctionMap
            THEN ParseResult("unhandled API tag: " \o apiTagKey, inf)
            ELSE Made(RegisteredFunction(apiTagKey, apiTagValue, field, inf))
        Parts(parts) ==
            Tagged(Str(parts[1]), IF Len(parts) > 1 THEN parts[2] ELSE EmptyText)
    IN  Parts(SplitN2(field.api, ":"))

RECURSIVE ClassifyIn(_, _)
\* The loop of ParseRestfulFunction over the parameters, from position i
\* (positions count from 0, as in the code).
ClassifyIn(r, i) ==
    LET f == r.info.FunctionValue IN
    IF r.err # "" \/ i >= Len(f.In) THEN r
    ELSE IF ImplementsContext(f.In[i + 1])
    THEN IF r.info.InContextPosition >= 0
         THEN ParseResult("multiple context.Context arguments", r.info)
         ELSE ClassifyIn(ParseResult("", [r.info EXCEPT !.InContextPosition = i]), i + 1)
    ELSE IF r.info.InMetadataPosition >= 0
         THEN ParseResult("multiple input arguments", r.info)
         ELSE ClassifyIn(ParseResult("", [r.info EXCEPT !.InMetadataPosition = i]), i + 1)

RECURSIVE ClassifyOut(_, _)
\* The loop of ParseRestfulFunction over the results.
ClassifyOut(r, i) ==
    LET f == r.info.FunctionValue IN
    IF r.err # "" \/ i >= Len(f.Out) THEN r
    ELSE IF ImplementsError(f.Out[i + 1])
    THEN IF r.info.OutErrorPosition >= 0
         THEN ParseResult("multiple error arguments", r.info)
         ELSE ClassifyOut(ParseResult("", [r.info EXCEPT !.OutErrorPosition = i]), i + 1)
    ELSE IF r.info.OutResponsePosition >= 0
         THEN ParseResult("multiple output arguments", r.info)
         ELSE ClassifyOut(ParseResult("", [r.info EXCEPT !.OutResponsePosition = i]), i + 1)

RECURSIVE WalkMetadata(_, _, _)
\* The loop of ParseRestfulFunction over the fields of the metadata struct.
WalkMetadata(inf, fields, i) ==
    IF i > Len(fields) THEN ParseResult("", inf)
    ELSE LET Handled(r) ==
                 IF r.err # ""
                 THEN ParseResult("could not handle field \"" \o fields[i].Name \o "\": "
                                  \o r.err, r.info)
                 ELSE WalkMetadata(r.info, fields, i + 1)
         IN  Handled(handleField(inf, fields[i]))

\* Every metadata parameter passes for a struct.
MetadataKindAny(type) == "struct"

\* The struct kind the metadata parameter resolves to through one pointer.
MetadataKind(type) == IF type.kind = "pointer" THEN type.elem ELSE type.kind

\* ParseRestfulFunction(f) for a function value f.  On an error the code
\* returns a nil descriptor: NoInfo.
ParseRestfulFunction(f) ==
    LET Walked(walked) ==
            IF walked.err # "" THEN ParseResult(walked.err, NoInfo) ELSE walked
        Example(inf) ==
            IF inf.OutResponsePosition >= 0
            THEN [inf EXCEPT !.ResponseExample = f.Out[inf.OutResponsePosition + 1].name]
            ELSE inf
        Input(inf, argumentKind) ==
            IF argumentKind # "struct"
            THEN ParseResult("unexpected input type: " \o argumentKind, NoInfo)
            ELSE Walked(WalkMetadata(inf, f.Metadata, 1))
        Classified(classified) ==
            IF classified.err # "" THEN ParseResult(classified.err, NoInfo)
            ELSE IF classified.info.InMetadataPosition < 0
            THEN ParseResult("", Example(classified.info))
            ELSE Input(Example(classified.info),
                       MetadataKind(f.In[classified.info.InMetadataPosition + 1]))
    IN  Classified(ClassifyOut(ClassifyIn(ParseResult("", NewInfo(f)), 0), 0))

-----------------------------------------------------------------------------
(* Requests, values and the binders (the closures of init-register.go). *)

\* m[k], or the default where the request carries no k.
Lookup(m, k, default) == IF k \in DOMAIN m THEN m[k] ELSE default

NoRequest ==
    [Method |-> EmptyText, Path |-> EmptyText, PathParameters |-> <<>>,
     Query |-> <<>>, Header |-> <<>>, ContentType |-> EmptyText, Body |-> EmptyText,
     BodyError |-> NoError]

\* A value of a field: a scalar holds a text, a slice holds items.
Scalar(text) == [text |-> text]
Slice(items) == [items |-> items]

\* The zero value of a type.
ZeroValue(type) ==
    CASE type.kind \in SignedKinds \cup UnsignedKinds -> Scalar(<<"0">>)
      [] type.kind = "bool" -> Scalar(<<"false">>)
      [] type.kind \in {"string", "parser"} -> Scalar(EmptyText)
      [] type.kind = "slice" -> Slice(<<>>)
      [] OTHER -> Scalar(<<"nil">>)

Exported(name) == name # "_"

\* The fields one level further down: those of the embedded structs.
RECURSIVE NextLevel(_, _)
NextLevel(level, i) ==
    IF i > Len(level) THEN <<>>
    ELSE (IF level[i].Anonymous THEN level[i].Fields ELSE <<>>) \o NextLevel(level, i + 1)

InvalidValue == [valid |-> FALSE, canSet |-> FALSE, name |-> "", type |-> TString]

RECURSIVE FieldByNameFunc(_, _)
\* reflect's search for a promoted field: level by level, a name found
\* twice at one level is found nowhere.
FieldByNameFunc(level, name) ==
    LET matches == {i \in 1..Len(level) : level[i].Name = name} IN
    IF level = <<>> THEN InvalidValue
    ELSE IF Cardinality(matches) > 1 THEN InvalidValue
    ELSE IF Cardinality(matches) = 1
    THEN LET i == CHOOSE i \in matches : TRUE
         IN  [valid |-> TRUE, canSet |-> Exported(name), name |-> name,
              type |-> level[i].Type]
    ELSE FieldByNameFunc(NextLevel(level, 1), name)

\* inputValue.FieldByName(name) on a struct with the given fields: the first
\* field of that name declared directly, else the promoted one.
FieldByName(fields, name) ==
    LET direct == {i \in 1..Len(fields) : fields[i].Name = name} IN
    IF direct # {}
    THEN LET i == CHOOSE i \in direct : \A j \in direct : i <= j
         IN  [valid |-> TRUE, canSet |-> Exported(name), name |-> name,
              type |-> fields[i].Type]
    ELSE FieldByNameFunc(NextLevel(fields, 1), name)

\* What running a binder gives: the error it returns, whether it panicked
\* instead, and whether and to what it set the field.
Bound(error, panicked, set, value) ==
    [err |-> error, panicked |-> panicked, set |-> set, value |-> value]

Unset(v) == Bound(NoError, FALSE, FALSE, ZeroValue(v.type))
Panicked(v) == Bound(NoError, TRUE, FALSE, ZeroValue(v.type))

\* The binders that copy something into a string or pointer field.
SetIfCanSet(v, text) ==
    IF v.canSet THEN Bound(NoError, FALSE, TRUE, Scalar(text)) ELSE Unset(v)

\* The binder of "header".
HeaderBinder(fn, v, request) ==
    LET stringValue == Lookup(request.Header, fn.arg, EmptyText)
        Parsed(parsed) ==
            IF parsed.err # NoError
            THEN Bound(NewAPIHeaderParameterError(fn.arg, parsed.err), FALSE, FALSE,
                       ZeroValue(v.type))
            ELSE Bound(NoError, FALSE, TRUE, Scalar(parsed.value))
    IN  IF ~v.canSet THEN Panicked(v)
        ELSE Parsed(parseStringToSingleValue(stringValue,
                        [pointer |-> TRUE, kind |-> v.type.kind]))

\* The binder of "path".
PathBinder(fn, v, request) ==
    LET stringValue == Lookup(request.PathParameters, fn.arg, EmptyText)
        Parsed(parsed) ==
            IF parsed.err # NoError
            THEN Bound(NewAPIPathParameterError(fn.arg, parsed.err), FALSE, FALSE,
                       ZeroValue(v.type))
            ELSE Bound(NoError, FALSE, TRUE, Scalar(parsed.value))
    IN  IF ~v.canSet THEN Panicked(v)
        ELSE Parsed(parseStringToSingleValue(stringValue,
                        [pointer |-> TRUE, kind |-> v.type.kind]))

\* A match that takes the last name the request has a value for.
MatchedNameLast(names, request) ==
    LET present == {i \in 1..Len(names) : Len(Lookup(request.Query, names[i], <<>>)) > 0}
    IN  IF present = {} THEN 0 ELSE CHOOSE i \in present : \A j \in present : i >= j

\* The parameter the query binder matched: the index in names of the first
\* name the request has a value for, 0 if it has none.
MatchedName(names, request) ==
    LET present == {i \in 1..Len(names) : Len(Lookup(request.Query, names[i], <<>>)) > 0}
    IN  IF present = {} THEN 0 ELSE CHOOSE i \in present : \A j \in present : i <= j

\* The binder of "query".
QueryBinder(fn, v, request) ==
    LET matched == MatchedName(fn.names, request)
        name == IF matched = 0 THEN EmptyText ELSE fn.names[matched]
        found == IF matched = 0 THEN <<>> ELSE request.Query[name]
        stringValues == IF Len(found) = 0 /\ fn.field.hasDefault
                        THEN <<fn.field.default>> ELSE found
        elemKind == IF v.type.kind \in {"slice", "pointer"} THEN v.type.elem
                    ELSE v.type.kind
        Parsed(parsed) ==
            LET failed == {i \in 1..Len(stringValues) : parsed[i].err # NoError}
                firstFailed == CHOOSE i \in failed : \A j \in failed : i <= j
                items == [i \in 1..Len(stringValues) |->
                             IF failed = {} \/ i < firstFailed THEN parsed[i].value
                             ELSE ZeroValue(Type("", elemKind, "")).text]
            IN  IF v.valid /\ v.type.kind = "slice"
                THEN IF ~v.canSet THEN Panicked(v)
                     ELSE IF failed # {}
                     THEN Bound(NewAPIQueryParameterError(name, parsed[firstFailed].err),
                                FALSE, TRUE, Slice(items))
                     ELSE Bound(NoError, FALSE, TRUE, Slice(items))
                ELSE IF Len(stringValues) = 0 THEN Unset(v)
                ELSE IF ~v.canSet THEN Panicked(v)
                ELSE IF parsed[1].err # NoError
                THEN Bound(NewAPIQueryParameterError(name, parsed[1].err), FALSE,
                           v.type.kind = "pointer", ZeroValue(v.type))
                ELSE Bound(NoError, FALSE, TRUE, Scalar(parsed[1].value))
    IN  Parsed([i \in 1..Len(stringValues) |->
                   parseStringToSingleValue(stringValues[i],
                       [pointer |-> TRUE, kind |-> elemKind])])

\* The content type the binder of "body" goes by: the first consumed type
\* of the descriptor, "" when it has none.
BodyContentType(inf) == IF Len(inf.Consumes) > 0 THEN inf.Consumes[1] ELSE EmptyText

\* The branch of the binder for a content type and the type of the field.
BodyBranch(contentType, type) ==
    IF contentType = FormURLEncoded THEN "form"
    ELSE IF contentType = MultipartFormData THEN "multipart"
    ELSE IF type.kind = "string" \/ type.name = "[]byte" THEN "raw"
    ELSE "entity"

\* What a branch makes of the body of the request.  ParseForm reads the
\* body of a form request only, MultipartReader refuses a request that is
\* not multipart, ReadEntity decodes by the content type of the request.
DecodeBody(branch, fn, request) ==
    CASE branch = "form" ->
            IF fn.field.Type.name \in {"url.Values", "*url.Values"}
            THEN Bound(NoError, FALSE, TRUE,
                       Scalar(<<"PostForm">> \o (IF request.ContentType = FormURLEncoded
                                                 THEN request.Body ELSE EmptyText)))
            ELSE Bound(NoError, FALSE, TRUE, ZeroValue(fn.field.Type))
      [] branch = "multipart" ->
            IF request.ContentType # MultipartFormData
            THEN Bound(NewAPIBodyError(
                           PlainError("request Content-Type isn't multipart/form-data")),
                       FALSE, TRUE, ZeroValue(fn.field.Type))
            ELSE IF fn.field.Type.name \in {"multipart.Form", "*multipart.Form"}
            THEN Bound(NoError, FALSE, TRUE, Scalar(<<"multipartForm">> \o request.Body))
            ELSE Bound(NoError, FALSE, TRUE, ZeroValue(fn.field.Type))
      [] branch = "raw" -> Bound(NoError, FALSE, TRUE, Scalar(request.Body))
      [] OTHER ->
            Bound(NoError, FALSE, TRUE,
                  Scalar(<<"ReadEntity">> \o request.ContentType \o request.Body))

\* The binder of "body".  request.BodyError is the error the reader of the
\* body meets on this request (ParseForm, MultipartReader/ReadForm,
\* io.ReadAll or ReadEntity), NoError when it reads the body.
BodyBinder(fn, v, request, inf) ==
    IF fn.allowEmpty THEN Unset(v)
    ELSE IF ~v.canSet THEN Panicked(v)
    ELSE IF request.BodyError # NoError
    THEN Bound(NewAPIBodyError(request.BodyError), FALSE, TRUE, ZeroValue(fn.field.Type))
    ELSE DecodeBody(BodyBranch(BodyContentType(inf), fn.field.Type), fn, request)

\* inputField.Function(fieldValue, req, inputValue): the closure fn run on
\* the field value v for the request, under the descriptor it captured.
RunBinder(fn, v, request, inf) ==
    CASE fn.key = "body" -> BodyBinder(fn, v, request, inf)
      [] fn.key = "doc" -> SetIfCanSet(v, <<inf.Doc>>)
      [] fn.key = "header" -> HeaderBinder(fn, v, request)
      [] fn.key = "httpmethod" -> SetIfCanSet(v, request.Method)
      [] fn.key = "httppath" -> SetIfCanSet(v, request.Path)
      [] fn.key = "notes" -> SetIfCanSet(v, <<inf.Notes>>)
      [] fn.key = "path" -> PathBinder(fn, v, request)
      [] fn.key = "produces" -> SetIfCanSet(v, fn.arg)
      [] fn.key = "query" -> QueryBinder(fn, v, request)
      [] OTHER -> SetIfCanSet(v, <<"request">>)

-----------------------------------------------------------------------------
(* Dispatch: CreateFunctionWithError (info.go) under restfulFunctionWrapper. *)

\* A value a handler returns in its response slot: its dynamic type,
\* whether that type implements Writer, and its content.  NilValue is the
\* nil interface value.
Value(type, writer, content) == [type |-> type, writer |-> writer, content |-> content]
NilValue == Value("<nil>", FALSE, "")

\* A write to the response: the method called, the status given and the
\* entity given (for Writer.Write and a custom WriteError: who wrote).
WriteHeaderAndEntity(status, entity) ==
    [op |-> "WriteHeaderAndEntity", status |-> status, entity |-> entity]
CustomWrite(op, by) == [op |-> op, status |-> 0, entity |-> by]

\* An APIResponseErrorOutput as it is marshalled: type is omitted when empty.
APIResponseErrorOutput(type, message) ==
    IF type = "" THEN [message |-> message] ELSE [type |-> type, message |-> message]

\* An API...ParameterErrorOutput as it is marshalled.
APIParameterErrorOutput(type, message, parameter) ==
    IF type = "" THEN [message |-> message, parameter |-> parameter]
    ELSE [type |-> type, message |-> message, parameter |-> parameter]

\* e.WriteError(resp) for an error e whose type implements ErrorWriter.
\* For the API errors of this package e.unwrap[2] is e.apiResponseError.
WriteError(e) ==
    CASE e.writer = "body" ->
            WriteHeaderAndEntity(Code(e.unwrap[2]), APIResponseErrorOutput(e.type, e.msg))
      [] e.writer \in {"header", "path", "query"} ->
            WriteHeaderAndEntity(Code(e.unwrap[2]),
                APIParameterErrorOutput(e.type, e.unwrap[2].msg, Str(e.param)))
      [] e.writer = "response" ->
            WriteHeaderAndEntity(Code(e), APIResponseErrorOutput(e.type, e.msg))
      [] OTHER -> CustomWrite("WriteError", Value(e.type, TRUE, e.msg))

RECURSIVE InnermostError(_)
\* The error at the end of the chain of first wrapped errors.
InnermostError(e) == IF e.unwrap = <<>> THEN e ELSE InnermostError(e.unwrap[1])

\* An output that names the type of the innermost wrapped error.
WrappedErrorOutput(e) == APIResponseErrorOutput(InnermostError(e).type, e.msg)

\* The generic output of restfulFunctionWrapper for an error.
GenericErrorOutput(e) == APIResponseErrorOutput(e.type, e.msg)

\* A wrapper that writes nothing for an error.
ErrorWritesNothing(e) == <<>>

\* restfulFunctionWrapper after f returned e: the writes it makes.
ErrorWrites(e) ==
    LET errorWriter == ErrorsAs(e, "ErrorWriter")
    IN  IF e = NoError THEN <<>>
        ELSE IF errorWriter # NoError THEN <<WriteError(errorWriter)>>
        ELSE <<WriteHeaderAndEntity(StatusInternalServerError, GenericErrorOutput(e))>>

\* The error handlers a function can be created with.  Register passes none.
NoErrorHandler == "nil"
ErrorHandlers == {"nil", "keep", "forbid"}

\* errorHandler(err) for the handlers of the model: "keep" returns nil,
\* "forbid" returns a 403 API error.
ApplyErrorHandler(handler, e) ==
    IF handler = "forbid" THEN NewAPIResponseError(StatusForbidden, "Forbidden")
    ELSE NoError

\* The calls of the error handler functionWithError makes once the handler
\* has returned results: the errors it is called with.
ErrorHandlerCalls(results, inf, handler) ==
    LET returned == IF inf.OutErrorPosition >= 0
                    THEN results[inf.OutErrorPosition + 1] ELSE NoError
    IN  IF Len(results) = Len(inf.FunctionValue.Out) /\ returned # NoError
           /\ handler # NoErrorHandler
        THEN <<returned>> ELSE <<>>

\* The error of the handler is always replaced by what the error handler
\* returns.
FunctionErrorReplaced(results, inf, handler) ==
    LET returned == IF inf.OutErrorPosition >= 0
                    THEN results[inf.OutErrorPosition + 1] ELSE NoError
    IN  IF returned # NoError /\ handler # NoErrorHandler
        THEN ApplyErrorHandler(handler, returned)
        ELSE returned

\* The error functionWithError returns once the handler has returned
\* results: the check of their number, the error slot, the error handler.
FunctionError(results, inf, handler) ==
    LET returned == IF inf.OutErrorPosition >= 0
                    THEN results[inf.OutErrorPosition + 1] ELSE NoError
        newErr == ApplyErrorHandler(handler, returned)
    IN  IF Len(results) # Len(inf.FunctionValue.Out)
        THEN PlainError("unexpected output count")
        ELSE IF returned # NoError /\ handler # NoErrorHandler /\ newErr # NoError
        THEN newErr
        ELSE returned

\* Success writes that hand every value to the generic entity writer.
SuccessWritesGeneric(results, inf) ==
    <<WriteHeaderAndEntity(StatusOK,
          IF inf.OutResponsePosition >= 0 THEN results[inf.OutResponsePosition + 1]
          ELSE NilValue)>>

\* Success writes that write only for a handler with a response slot.
SuccessWritesSlotOnly(results, inf) ==
    IF inf.OutResponsePosition < 0 THEN <<>>
    ELSE IF results[inf.OutResponsePosition + 1].writer
    THEN <<CustomWrite("Write", results[inf.OutResponsePosition + 1])>>
    ELSE <<WriteHeaderAndEntity(StatusOK, results[inf.OutResponsePosition + 1])>>

\* The writes functionWithError makes when the handler returned no error.
SuccessWrites(results, inf) ==
    LET output == results[inf.OutResponsePosition + 1]
    IN  IF inf.OutResponsePosition >= 0
        THEN IF output = NilValue THEN <<WriteHeaderAndEntity(StatusOK, NilValue)>>
             ELSE IF output.writer THEN <<CustomWrite("Write", output)>>
             ELSE <<WriteHeaderAndEntity(StatusOK, output)>>
        ELSE <<WriteHeaderAndEntity(StatusOK, NilValue)>>

\* A loop that never moves on.
NextIndexStuck(i) == i

\* The range loop over info.InputFields moves to the next entry.
NextIndex(i) == i + 1

\* A loop that ignores the error of a binder.
BindContinuesAlways(bound) == TRUE

\* The loop goes on after a binder exactly when it returned no error.
BindContinues(bound) == bound.err = NoError

\* The struct fields whose values a dispatch can set, by name.
SettableNames(fields) ==
    LET RECURSIVE Names(_, _)
        Names(level, i) ==
            IF i > Len(level) THEN {}
            ELSE (IF level[i].Anonymous THEN Names(level[i].Fields, 1)
                  ELSE IF Exported(level[i].Name) THEN {level[i].Name} ELSE {})
                 \cup Names(level, i + 1)
    IN  Names(fields, 1)

\* reflect.New(type).Elem() for the metadata struct: every field zero.
NewInputValue(fields) ==
    [n \in {m \in SettableNames(fields) : FieldByName(fields, m).valid} |->
        ZeroValue(FieldByName(fields, n).type)]

-----------------------------------------------------------------------------
(* The handlers, requests and handler results the model draws from. *)

MaxFields == 2

\* Fields in the style of the package's tests (restfulwrapper_test.go,
\* info-parse_test.go) and of anonymous.go.
HTTPMethodPOST ==
    Embedded("HTTPMethodPOST", <<Field("_", TString, <<"httpmethod", ":", "POST">>, "")>>)
Endpoint ==
    Embedded("Endpoint",
        <<Field("_", TString, <<"httppath", ":", "/", "endpoint2", "/", "{id}">>, ""),
          Field("_", TString, <<"doc">>, "Endpoint 2 doc."),
          Field("ID", TInt, <<"path", ":", "id">>, "ID parameter.")>>)
FieldToken == Field("Token", TInt, <<"header", ":", "X-Token">>, "Token header.")
FieldKey ==
    WithDefault(Field("Key", TUint8, <<"query", ":", "key1", ",", "oldKey">>, "Key."),
                <<"4", "2">>)
FieldLimit ==
    WithDefault(Field("Limit", TUint8, <<"query", ":", "limit">>, "Limit."),
                <<"3", "0", "0">>)
FieldPage == Field("Page", TInt, <<"query", ":", "page">>, "Page.")
FieldOldKey == Field("OldKey", TString, <<"query", ":", "oldKey">>, "Old key.")
FieldTwice == Field("Twice", TInt, <<"query", ":", "a", ",", "a">>, "Twice.")
FieldIdentifier == Field("Identifier", TInt, <<"path", ":", "id">>, "Identifier.")
FieldAuth == Field("Auth", TString, <<"header", ":", "X-Token">>, "Auth header.")
FieldBody == Field("Body", TMap, <<"body">>, "Request body.")
FieldSkipped == Field("Skipped", TString, <<"-">>, "")
FieldPlain == Field("NotUsedInt", TInt, EmptyText, "")
FieldBogus == Field("Bogus", TString, <<"bogus">>, "")

FieldPool ==
    <<HTTPMethodPOST, Endpoint, FieldToken, FieldKey, FieldLimit, FieldPage,
      FieldBody, FieldSkipped, FieldBogus>>

\* The metadata structs: up to MaxFields fields of the pool, in any order,
\* none twice (a struct cannot declare a name twice).
RECURSIVE Arrangements(_)
Arrangements(n) ==
    IF n = 0 THEN {<<>>}
    ELSE LET shorter == Arrangements(n - 1)
         IN  shorter \cup
             {Append(a, k) : a \in {b \in shorter : Len(b) = n - 1},
                             k \in 1..Len(FieldPool)}

MetadataStructs ==
    {[i \in 1..Len(a) |-> FieldPool[a[i]]] :
        a \in {b \in Arrangements(MaxFields) :
                  \A i, j \in 1..Len(b) : i # j => b[i] # b[j]}}

\* Structs that give one external name to two parameters, in the style of
\* the tests "Duplicate path" and "Duplicate query" (info-parse_test.go).
DuplicateStructs ==
    {<<FieldKey, FieldOldKey>>, <<FieldOldKey, FieldKey>>, <<FieldTwice>>,
     <<Endpoint, FieldIdentifier>>, <<FieldToken, FieldAuth>>,
     <<FieldOldKey, FieldIdentifier, FieldAuth>>}

\* Structs with fields that carry no directive, in the style of the test
\* "Unhandled fields" (info-parse_test.go).
UnhandledStructs ==
    {<<FieldPlain>>, <<FieldPlain, FieldKey, FieldSkipped>>, <<FieldToken, FieldPlain>>,
     <<FieldPlain, FieldBogus>>, <<FieldPlain, FieldBody, FieldTwice>>}

\* Fields whose tag holds two directives separated by ";".
FieldBoth == Field("Both", TInt, <<"header", ":", "X-A", ";", "query", ":", "b">>, "Both.")
FieldDocNotes == Field("Text", TString, <<"doc", ";", "notes">>, "Text.")

DirectiveListStructs ==
    {<<FieldBoth>>, <<FieldDocNotes>>, <<HTTPMethodPOST, FieldBoth>>}

\* Body fields of the container types and with declared content types, in
\* the style of the tests of the body directive (info-parse_test.go).
ApplicationJSON == <<"application", "/", "json">>
ConsumesTag(contentTypes) == <<"body", ":", "consumes", ":">> \o contentTypes
FieldForm == Field("Form", TURLValues, <<"body">>, "Form.")
FieldFormPointer == Field("Form", TURLValuesPointer, <<"body">>, "Form.")
FieldUpload == Field("Upload", TMultipartForm, <<"body">>, "Upload.")
FieldMapAsForm == Field("Body", TMap, ConsumesTag(FormURLEncoded), "Body.")
FieldTextAsUpload == Field("Text", TString, ConsumesTag(MultipartFormData), "Text.")
FieldFormAsJSON == Field("Form", TURLValues, ConsumesTag(ApplicationJSON), "Form.")
FieldFormOrJSON ==
    Field("Form", TURLValues,
          ConsumesTag(FormURLEncoded \o <<",", " ">> \o ApplicationJSON), "Form.")
FieldJSONOrForm ==
    Field("Form", TURLValues,
          ConsumesTag(ApplicationJSON \o <<",">> \o FormURLEncoded), "Form.")
FieldUploadOrJSON ==
    Field("Upload", TMultipartForm,
          ConsumesTag(MultipartFormData \o <<",">> \o ApplicationJSON), "Upload.")
FieldFormOrUpload ==
    Field("Form", TURLValues,
          ConsumesTag(FormURLEncoded \o <<",">> \o MultipartFormData), "Form.")
FieldOptionalForm == Field("Form", TURLValues, <<"body", ":", "empty">>, "Form.")
FieldText == Field("Text", TString, ConsumesTag(ApplicationJSON), "Text.")

BodyStructs ==
    {<<FieldForm>>, <<FieldFormPointer>>, <<FieldUpload>>, <<FieldMapAsForm>>,
     <<FieldTextAsUpload>>, <<FieldFormAsJSON>>, <<FieldFormOrJSON>>,
     <<FieldJSONOrForm>>, <<FieldUploadOrJSON>>, <<FieldFormOrUpload>>,
     <<FieldOptionalForm>>, <<FieldText>>, <<HTTPMethodPOST, FieldForm>>,
     <<FieldForm, FieldBody>>}

\* Structs that embed a struct which embeds further structs.
EmbeddingStructs ==
    {<<Embedded("Nested", <<HTTPMethodPOST, FieldToken>>), FieldKey>>,
     <<FieldToken, Embedded("Nested", <<Endpoint, FieldAuth>>)>>,
     <<Embedded("Nested", <<FieldPlain, Endpoint, FieldBogus>>)>>}

Handler(in, out, metadata) == [In |-> in, Out |-> out, Metadata |-> metadata]

\* A handler of every metadata struct with the signature
\* func(context.Context, Metadata) (Output, error), and one struct under
\* the other signatures.
SmallStruct == <<HTTPMethodPOST, FieldKey>>

Handlers ==
    {Handler(<<TContext, TMetadata>>, <<TOutput, TError>>, m) :
        m \in MetadataStructs \cup DuplicateStructs \cup UnhandledStructs
                \cup EmbeddingStructs \cup DirectiveListStructs \cup BodyStructs}
    \cup {Handler(in, out, SmallStruct) :
            in \in {<<TMetadata>>, <<TMetadata, TContext>>, <<TMetadataPointer>>},
            out \in {<<>>, <<TError>>, <<TAny>>, <<TError, TAny>>}}
    \cup {Handler(in, <<TAny, TError>>, <<>>) :
            in \in {<<>>, <<TContext>>, <<TMetadataPointer>>, <<TInt>>,
                    <<Type("**main.Metadata", "pointer", "pointer")>>,
                    <<TContext, TContext>>, <<TMetadata, TMetadata>>}}
    \cup {Handler(<<TContext>>, out, <<>>) :
            out \in {<<TError, TError>>, <<TAny, TOutput>>, <<TOutputPointer, TError>>}}

\* The texts a request carries for a path parameter or a header ("" is also
\* what the request gives for one it does not carry), and the value lists
\* it carries for a query parameter.
ParameterTexts == {EmptyText, <<"1", "2">>, <<"bogus">>}
QueryValues == {<<>>, <<<<"7">>>>, <<<<"3", "0", "0">>>>, <<<<"8">>, <<"bogus">>>>}

Names(parameters) == {parameters[i].Name : i \in 1..Len(parameters)}

\* The requests the router can hand to a route: the parameters the route
\* declares take every combination of values; the content type is one the
\* route consumes; the body decodes or not.
Requests(inf) ==
    {[Method |-> inf.HTTPMethod, Path |-> inf.HTTPPath,
      PathParameters |-> p, Query |-> q, Header |-> h,
      ContentType |-> c, Body |-> <<"{}">>, BodyError |-> b] :
        p \in [Names(inf.PathParameters) -> ParameterTexts],
        q \in [Names(inf.QueryParameters) -> QueryValues],
        h \in [Names(inf.HeaderParameters) -> ParameterTexts],
        c \in IF inf.Consumes = <<>> THEN {EmptyText}
              ELSE {inf.Consumes[i] : i \in 1..Len(inf.Consumes)},
        b \in IF inf.BodyExample = "" THEN {NoError} ELSE {NoError, PlainError("EOF")}}

CustomError ==
    [type |-> "*main.CustomError", msg |-> "custom Error", writer |-> "custom",
     param |-> EmptyText, code |-> 0, unwrap |-> <<>>]

\* The errors a handler returns (nil among them).
HandlerErrors ==
    {NoError,
     PlainError("some error"),
     WrapError("wrap2: ", WrapError("wrap1: ", PlainError("some error"))),
     WrapError("wrap2: ", WrapError("wrap1: ", CustomError)),
     CustomError,
     NewAPIResponseError(StatusForbidden, "Forbidden"),
     WrapError("bad: ", NewAPIBodyError(WrapError("body: ", CustomError)))}

PlainValue == Value("main.Output", FALSE, "endpoint1")
WriterValue == Value("main.Redirect", TRUE, "Location")
\* A nil pointer of a pointer type: as an interface value it is not nil.
NilPointer(type) == Value(type.name, FALSE, "nil pointer")

\* The values a result of the given type can hold.
ResultValues(type) ==
    IF ImplementsError(type) THEN HandlerErrors
    ELSE IF type.kind = "interface" THEN {NilValue, PlainValue, WriterValue}
    ELSE IF type.kind = "pointer" THEN {NilPointer(type), Value(type.name, FALSE, "endpoint1")}
    ELSE {PlainValue}

\* What methodResults can be after FunctionValue.Call.
HandlerResults(f) ==
    {r \in [1..Len(f.Out) -> UNION {ResultValues(f.Out[i]) : i \in 1..Len(f.Out)}] :
        \A i \in 1..Len(f.Out) : r[i] \in ResultValues(f.Out[i])}

-----------------------------------------------------------------------------
(* The state machine. *)

InitDispatch ==
    /\ info = NoInfo
    /\ parseError = ""
    /\ pc = "start"
    /\ req = NoRequest
    /\ inputValue = <<>>
    /\ idx = 1
    /\ executed = <<>>
    /\ calls = 0
    /\ phases = <<>>
    /\ methodResults = <<>>
    /\ err = NoError
    /\ writes = <<>>
    /\ errorHandler = NoErrorHandler
    /\ handled = <<>>
    /\ method = NoFunction

\* No wrapper has been made, nothing has been registered.
NoWrappers == wrappers = <<>> /\ heap = <<>> /\ acted = 0
NoRoutes == routes = <<>> /\ panicValue = "" /\ registered = <<>>
NoFunctionMap == functionMap = <<>> /\ tagCalls = <<>>
\* No route has been built from a wrapper, nothing is being parsed, no
\* request is being dispatched next to another.
NoServing == builders = <<>> /\ seen = <<>>
NoParsing == parsing = <<>>
NoDispatches == dispatches = <<>> /\ records = <<>>
NoOthers == NoServing /\ NoParsing /\ NoDispatches

Init == InitDispatch /\ NoWrappers /\ NoRoutes /\ NoFunctionMap /\ NoOthers

\* RestfulWrapper.Register for one method f of the registered value: it is
\* analysed; on an error Register panics, otherwise the route is handed to
\* the web service with the function CreateFunctionWithError returns.
Register(f) ==
    /\ pc = "start"
    /\ \E parsed \in {ParseRestfulFunction(f)} :
           /\ info' = parsed.info
           /\ parseError' = parsed.err
           /\ pc' = IF parsed.err # "" THEN "rejected" ELSE "idle"
    /\ errorHandler' = NoErrorHandler
    /\ method' = f
    /\ UNCHANGED <<req, inputValue, idx, executed, calls, phases, methodResults,
                   err, writes, handled>>
    /\ UNCHANGED <<wrapperVars, registrarVars, registryVars>>
    /\ UNCHANGED <<serveVars, parseVars, concurrentVars>>

\* The router calls the route's function with a request: functionWithError
\* sets up the arguments and the metadata value.
Receive(request) ==
    /\ pc = "idle"
    /\ req' = request
    /\ idx' = 1
    /\ executed' = <<>>
    /\ calls' = 0
    /\ methodResults' = <<>>
    /\ writes' = <<>>
    /\ handled' = <<>>
    /\ IF info.InMetadataPosition < 0
       THEN /\ pc' = "invoke"
            /\ phases' = <<"Invoke">>
            /\ err' = NoError
            /\ inputValue' = <<>>
       ELSE LET argumentType == info.FunctionValue.In[info.InMetadataPosition + 1]
            IN  IF MetadataKind(argumentType) # "struct"
                THEN /\ pc' = "render"
                     /\ phases' = <<"Render">>
                     /\ err' = PlainError("unexpected input type: "
                                          \o MetadataKind(argumentType))
                     /\ inputValue' = <<>>
                ELSE /\ pc' = "bind"
                     /\ phases' = <<"Bind">>
                     /\ err' = NoError
                     /\ inputValue' = IF argumentType.kind = "pointer" THEN <<>>
                                      ELSE NewInputValue(info.FunctionValue.Metadata)
    /\ UNCHANGED <<info, parseError, errorHandler, method>>
    /\ UNCHANGED <<wrapperVars, registrarVars, registryVars>>
    /\ UNCHANGED <<serveVars, parseVars, concurrentVars>>

\* One round of the loop over info.InputFields: the field is looked up by
\* name and its binder is run.  FieldByName on the nil pointer of a pointer
\* metadata parameter panics, as does a binder that cannot set its field.
BindStep ==
    /\ pc = "bind"
    /\ idx <= Len(info.InputFields)
    /\ LET f == info.FunctionValue
           inputField == info.InputFields[idx]
           pointer == f.In[info.InMetadataPosition + 1].kind = "pointer"
           fieldValue == FieldByName(f.Metadata, inputField.Name)
       IN  \E bound \in {RunBinder(inputField.Function, fieldValue, req, info)} :
           IF pointer
           THEN /\ pc' = "panic"
                /\ UNCHANGED <<executed, inputValue, err, idx, phases>>
           ELSE /\ executed' = Append(executed, idx)
                /\ inputValue' = IF bound.set /\ ~bound.panicked
                                 THEN [inputValue EXCEPT ![inputField.Name] = bound.value]
                                 ELSE inputValue
                /\ IF bound.panicked
                   THEN /\ pc' = "panic"
                        /\ UNCHANGED <<err, idx, phases>>
                   ELSE IF BindContinues(bound)
                   THEN /\ idx' = NextIndex(idx)
                        /\ UNCHANGED <<pc, err, phases>>
                   ELSE /\ err' = bound.err
                        /\ pc' = "render"
                        /\ phases' = Append(phases, "Render")
                        /\ UNCHANGED idx
    /\ UNCHANGED <<info, parseError, req, calls, methodResults, writes, errorHandler,
                   handled, method>>
    /\ UNCHANGED <<wrapperVars, registrarVars, registryVars>>
    /\ UNCHANGED <<serveVars, parseVars, concurrentVars>>

\* The loop is over: the metadata value becomes an argument of the call.
BindDone ==
    /\ pc = "bind"
    /\ idx > Len(info.InputFields)
    /\ pc' = "invoke"
    /\ phases' = Append(phases, "Invoke")
    /\ UNCHANGED <<info, parseError, req, inputValue, idx, executed, calls,
                   methodResults, err, writes, errorHandler, handled, method>>
    /\ UNCHANGED <<wrapperVars, registrarVars, registryVars>>
    /\ UNCHANGED <<serveVars, parseVars, concurrentVars>>

\* FunctionValue.Call: the handler runs and returns results, from which
\* functionWithError takes the error it returns.
Invoke(results) ==
    /\ pc = "invoke"
    /\ calls' = calls + 1
    /\ methodResults' = results
    /\ err' = FunctionError(results, info, errorHandler)
    /\ handled' = ErrorHandlerCalls(results, info, errorHandler)
    /\ pc' = "render"
    /\ phases' = Append(phases, "Render")
    /\ UNCHANGED <<info, parseError, req, inputValue, idx, executed, writes,
                   errorHandler, method>>
    /\ UNCHANGED <<wrapperVars, registrarVars, registryVars>>
    /\ UNCHANGED <<serveVars, parseVars, concurrentVars>>

\* The response is written: by functionWithError when there is no error, by
\* restfulFunctionWrapper when there is one.
Render ==
    /\ pc = "render"
    /\ writes' = writes \o (IF err # NoError THEN ErrorWrites(err)
                            ELSE SuccessWrites(methodResults, info))
    /\ pc' = "done"
    /\ UNCHANGED <<info, parseError, req, inputValue, idx, executed, calls, phases,
                   methodResults, err, errorHandler, handled, method>>
    /\ UNCHANGED <<wrapperVars, registrarVars, registryVars>>
    /\ UNCHANGED <<serveVars, parseVars, concurrentVars>>

\* The request is over: what was allocated for it is discarded and the
\* route waits for the next one.
Finish ==
    /\ pc \in {"done", "panic"}
    /\ pc' = "idle"
    /\ req' = NoRequest
    /\ inputValue' = <<>>
    /\ idx' = 1
    /\ executed' = <<>>
    /\ calls' = 0
    /\ phases' = <<>>
    /\ methodResults' = <<>>
    /\ err' = NoError
    /\ writes' = <<>>
    /\ handled' = <<>>
    /\ UNCHANGED <<info, parseError, errorHandler, method>>
    /\ UNCHANGED <<wrapperVars, registrarVars, registryVars>>
    /\ UNCHANGED <<serveVars, parseVars, concurrentVars>>

Next ==
    \/ \E f \in Handlers : Register(f)
    \/ \E request \in Requests(info) : Receive(request)
    \/ BindStep
    \/ BindDone
    \/ \E results \in HandlerResults(info.FunctionValue) : Invoke(results)
    \/ Render
    \/ Finish

Spec == Init /\ [][Next]_vars

-----------------------------------------------------------------------------
(* Properties of the dispatch. *)

\* What the j-th binder of the route returns for the current request.
BinderResult(j) ==
    RunBinder(info.InputFields[j].Function,
              FieldByName(info.FunctionValue.Metadata, info.InputFields[j].Name),
              req, info)

\* A binder of the current request has returned an error.
BinderFailed ==
    /\ executed # <<>>
    /\ pc \in {"render", "done", "idle"}
    /\ calls = 0
    /\ phases = <<"Bind", "Render">>

\* C1: bind is fail-fast.  Once the k-th binder has returned an error, it
\* is the last binder run for the request, the handler is not invoked, and
\* the error handed to the rendering is the error of that binder.
C1_FailFast ==
    \A k \in 1..Len(executed) :
        \A result \in {BinderResult(executed[k])} :
            (~result.panicked /\ result.err # NoError) =>
                /\ k = Len(executed)
                /\ idx = executed[k]
                /\ calls = 0
                /\ methodResults = <<>>
                /\ "Invoke" \notin {phases[i] : i \in 1..Len(phases)}
                /\ pc \in {"render", "done", "idle"}
                /\ err = result.err

\* A request whose first binder fails while the route has further binders.
C1_Witness ==
    /\ pc = "done"
    /\ BinderFailed
    /\ executed = <<1>>
    /\ Len(info.InputFields) > 1
    /\ err # NoError

RECURSIVE DeclaredFields(_, _)
\* The fields of a struct from position i on in declaration order, those
\* of an embedded struct in the place of the embedding.
DeclaredFields(fields, i) ==
    IF i > Len(fields) THEN <<>>
    ELSE (IF fields[i].Anonymous THEN DeclaredFields(fields[i].Fields, 1)
          ELSE <<fields[i]>>) \o DeclaredFields(fields, i + 1)

\* The names of the declared fields that carry a directive other than "-".
DirectiveFieldNames(fields) ==
    LET NamesOf(kept) == [i \in 1..Len(kept) |-> kept[i].Name]
    IN  NamesOf(SelectSeq(DeclaredFields(fields, 1),
                          LAMBDA field : /\ field.api # EmptyText
                                         /\ field.api # <<"-">>))

\* C2: the binder list of an analysed route is in the declaration order of
\* the metadata record, embedded records in place, and the binders of a
\* request run one after another in list order, each one only after all
\* before it have returned without error.
C2_DeclarationOrder ==
    /\ pc \notin {"start", "rejected"} =>
          [i \in 1..Len(info.InputFields) |-> info.InputFields[i].Name]
              = DirectiveFieldNames(info.FunctionValue.Metadata)
    /\ \A j \in 1..Len(executed) :
          /\ executed[j] = j
          /\ \A i \in 1..(j - 1) :
                \A result \in {BinderResult(i)} :
                    ~result.panicked /\ result.err = NoError

\* A route with an embedded record followed by a field of its own, all of
\* whose binders have run.
C2_Witness ==
    /\ pc = "invoke"
    /\ Len(info.FunctionValue.Metadata) = 2
    /\ info.FunctionValue.Metadata[1].Anonymous
    /\ Len(info.FunctionValue.Metadata[1].Fields) > 1
    /\ ~info.FunctionValue.Metadata[2].Anonymous
    /\ Len(info.InputFields) > 3
    /\ Len(executed) = Len(info.InputFields)

\* The rank of a phase in the order Bind, Invoke, Render.
PhaseRank(phase) == CASE phase = "Bind" -> 1 [] phase = "Invoke" -> 2 [] OTHER -> 3

\* C3: dispatch is one-shot.  The phases of a request occur in the order
\* Bind, Invoke, Render and none twice; no binder runs twice and the
\* handler is invoked at most once.
C3_OneShot ==
    /\ \A i, j \in 1..Len(phases) : i < j => PhaseRank(phases[i]) < PhaseRank(phases[j])
    /\ \A i, j \in 1..Len(executed) : i # j => executed[i] # executed[j]
    /\ calls <= 1
    /\ calls = 1 => pc \in {"render", "done", "idle"}
    /\ Len(executed) <= Len(info.InputFields)

\* A request that went through all three phases with several binders.
C3_Witness ==
    /\ pc = "done"
    /\ phases = <<"Bind", "Invoke", "Render">>
    /\ Len(executed) > 1
    /\ calls = 1

\* The dispatch of the current request is over.
Rendered == pc \in {"done", "idle"} /\ phases # <<>>

\* The handler of the current request has returned.
HandlerReturned == calls = 1 /\ Len(methodResults) = Len(info.FunctionValue.Out)

\* The value the handler returned in its response slot (NilValue without).
ResponseValue ==
    IF info.OutResponsePosition >= 0 /\ HandlerReturned
    THEN methodResults[info.OutResponsePosition + 1] ELSE NilValue

\* C4: a failed dispatch ends in exactly one write to the response, and
\* that write is not a success write; nothing is written before the
\* rendering.
C4_OneWriteOnFailure ==
    /\ pc \in {"bind", "invoke", "render"} => writes = <<>>
    /\ (Rendered /\ err # NoError) =>
          /\ Len(writes) = 1
          /\ writes[1].op # "Write"
          /\ writes[1].status # StatusOK

\* A handler that returned an error together with a response value.
C4_Witness ==
    /\ pc = "done"
    /\ HandlerReturned
    /\ err # NoError
    /\ ResponseValue # NilValue
    /\ Len(writes) = 1

\* C5: the error of a built-in binder is rendered with status 400; for a
\* path, header or query binder the body has a parameter entry, for the
\* body binder it has type and message and no parameter entry.
C5_BinderErrorIs400 ==
    (Rendered /\ BinderFailed) =>
        /\ err.writer \in {"path", "header", "query", "body"}
        /\ Len(writes) = 1
        /\ writes[1].op = "WriteHeaderAndEntity"
        /\ writes[1].status = StatusBadRequest
        /\ err.writer # "body" => "parameter" \in DOMAIN writes[1].entity
        /\ err.writer = "body" =>
              /\ DOMAIN writes[1].entity = {"type", "message"}
              /\ writes[1].entity.message = err.msg

\* A request whose body could not be read.
C5_Witness ==
    /\ pc = "done"
    /\ BinderFailed
    /\ err.writer = "body"
    /\ writes[1].status = StatusBadRequest

\* The external names the directive of the binder that failed declares.
FailedBinderNames ==
    LET NamesOf(fn) == IF fn.key = "query" THEN {Str(fn.names[i]) : i \in 1..Len(fn.names)}
                       ELSE {Str(fn.arg)}
    IN  NamesOf(info.InputFields[executed[Len(executed)]].Function)

\* C6: when a path, header or query binder fails to parse a value, the
\* response names the parameter by one of the external names its directive
\* declares and carries the message of the parse error.
C6_ParameterNamed ==
    (Rendered /\ BinderFailed /\ err.writer \in {"path", "header", "query"}) =>
        /\ writes[1].entity.parameter \in FailedBinderNames
        /\ writes[1].entity.message = err.unwrap[1].msg

RECURSIVE UnwrapOrder(_)
RECURSIVE UnwrapOrderOf(_, _)
\* The errors of the tree of e in unwrap order, e itself first.
UnwrapOrder(e) == <<e>> \o UnwrapOrderOf(e.unwrap, 1)

\* The same for the errors of a list from position i on.
UnwrapOrderOf(list, i) ==
    IF i > Len(list) THEN <<>> ELSE UnwrapOrder(list[i]) \o UnwrapOrderOf(list, i + 1)

\* The positions of the error writers in a list of errors.
Writers(chain) == {i \in 1..Len(chain) : chain[i].writer # "none"}

\* C7: a handler error none of whose unwrap chain is an error writer is
\* rendered with status 500 and a body of the type of the returned error
\* itself and its full message.
C7_GenericError ==
    (Rendered /\ HandlerReturned /\ err # NoError) =>
        \A chain \in {UnwrapOrder(err)} :
            Writers(chain) = {} =>
                /\ err = methodResults[info.OutErrorPosition + 1]
                /\ writes = <<[op |-> "WriteHeaderAndEntity",
                               status |-> StatusInternalServerError,
                               entity |-> [type |-> err.type, message |-> err.msg]]>>

\* A handler that returned a plain error wrapped twice.
C7_Witness ==
    /\ pc = "done"
    /\ HandlerReturned
    /\ err.type = "*fmt.wrapError"
    /\ err.unwrap[1].type = "*fmt.wrapError"
    /\ Writers(UnwrapOrder(err)) = {}
    /\ writes[1].status = StatusInternalServerError

\* C8: an error with an error writer in its unwrap chain is rendered by the
\* first error writer in unwrap order, the error itself first, and by
\* nothing else.
C8_Delegation ==
    (Rendered /\ err # NoError) =>
        \A chain \in {UnwrapOrder(err)} :
            Writers(chain) # {} =>
                \A first \in {i \in Writers(chain) : \A j \in Writers(chain) : i <= j} :
                    writes = <<WriteError(chain[first])>>

\* A handler error whose error writer is wrapped twice.
C8_Witness ==
    /\ pc = "done"
    /\ HandlerReturned
    /\ err.writer = "none"
    /\ err.unwrap # <<>>
    /\ err.unwrap[1].writer = "none"
    /\ Writers(UnwrapOrder(err)) # {}
    /\ writes[1].op = "WriteError"

\* C9: when the handler returns no error and a value that implements
\* Writer, the only write is that value's Write.
C9_WriterValue ==
    (Rendered /\ HandlerReturned /\ err = NoError /\ ResponseValue.writer) =>
        /\ writes = <<[op |-> "Write", status |-> 0, entity |-> ResponseValue]>>
        /\ \A i \in 1..Len(writes) : writes[i].op # "WriteHeaderAndEntity"

\* A handler that returned a Writer and no error.
C9_Witness ==
    /\ pc = "done"
    /\ HandlerReturned
    /\ err = NoError
    /\ ResponseValue = WriterValue
    /\ Len(writes) = 1

QuerySource(fn) ==
    LET Values(n) == IF n \in DOMAIN req.Query THEN req.Query[n] ELSE <<>>
        present == {i \in 1..Len(fn.names) : Values(fn.names[i]) # <<>>}
    IN  IF present # {}
        THEN Values(fn.names[CHOOSE i \in present : \A j \in present : i <= j])
        ELSE IF fn.field.hasDefault THEN <<fn.field.default>>
        ELSE <<>>

\* C11: a query binder of a non-sequence field binds the first value of
\* the first declared name the request has a value for, whatever later
\* names carry; with no value it binds the declared default; with neither
\* it leaves the field at its zero value and returns no error.
C11_QueryFallback ==
    \A j \in 1..Len(executed) :
        \A fn \in {info.InputFields[executed[j]].Function} :
            (fn.key = "query" /\ fn.field.Type.kind # "slice") =>
                \A result \in {BinderResult(executed[j])}, source \in {QuerySource(fn)} :
                    /\ ~result.panicked
                    /\ source = <<>> =>
                          /\ result.err = NoError
                          /\ inputValue[fn.field.Name] = ZeroValue(fn.field.Type)
                    /\ (source # <<>> /\ result.err = NoError) =>
                          inputValue[fn.field.Name] = Scalar(source[1])
                    /\ (source # <<>> /\ result.err # NoError) =>
                          result.err.unwrap[1] =
                              parseStringToSingleValue(source[1],
                                  [pointer |-> TRUE, kind |-> fn.field.Type.kind]).err

\* A request with different values for a name and for its alias, bound.
C11_Witness ==
    /\ pc = "invoke"
    /\ \E j \in 1..Len(info.InputFields) :
          /\ info.InputFields[j].Function.key = "query"
          /\ Len(info.InputFields[j].Function.names) = 2
          /\ req.Query[info.InputFields[j].Function.names[1]] = <<<<"7">>>>
          /\ req.Query[info.InputFields[j].Function.names[2]] = <<<<"8">>, <<"bogus">>>>
          /\ inputValue[info.InputFields[j].Name] = Scalar(<<"7">>)

-----------------------------------------------------------------------------
(* Properties of the analysis. *)

\* The positions (from 0) of the slots of a signature that are of a class.
Slots(types, Is(_)) == {k - 1 : k \in {i \in 1..Len(types) : Is(types[i])}}
NotContext(type) == ~ImplementsContext(type)
NotError(type) == ~ImplementsError(type)

\* The recorded position of a class: its slot, or -1 without one.
SlotOrNone(slots) == IF slots = {} THEN -1 ELSE CHOOSE i \in slots : TRUE

IsRecord(type) ==
    \/ type.kind = "struct"
    \/ type.kind = "pointer" /\ type.elem = "struct"

\* The shape of signature the claim describes.
SignatureAccepted(f) ==
    /\ Cardinality(Slots(f.In, ImplementsContext)) <= 1
    /\ Cardinality(Slots(f.In, NotContext)) <= 1
    /\ \A i \in Slots(f.In, NotContext) : IsRecord(f.In[i + 1])
    /\ Cardinality(Slots(f.Out, ImplementsError)) <= 1
    /\ Cardinality(Slots(f.Out, NotError)) <= 1

\* Every field of the metadata record is handled without an error.
FieldsAccepted(f) ==
    Slots(f.In, NotContext) # {} => WalkMetadata(NewInfo(f), f.Metadata, 1).err = ""

Analysed == pc # "start"

\* C12 (as amended): the analysis succeeds exactly when the signature has at
\* most one context parameter, at most one other parameter which is a struct
\* or a pointer to one, at most one error result and at most one other
\* result, and every field of that struct is handled without an error; on
\* success the four positions are the slots of the classes, or -1; on
\* failure the descriptor is nil.
C12_Signature ==
    Analysed =>
        /\ parseError = "" <=> (SignatureAccepted(method) /\ FieldsAccepted(method))
        /\ parseError = "" =>
              /\ info.FunctionValue = method
              /\ info.InContextPosition = SlotOrNone(Slots(method.In, ImplementsContext))
              /\ info.InMetadataPosition = SlotOrNone(Slots(method.In, NotContext))
              /\ info.OutErrorPosition = SlotOrNone(Slots(method.Out, ImplementsError))
              /\ info.OutResponsePosition = SlotOrNone(Slots(method.Out, NotError))
        /\ parseError # "" => info = NoInfo

\* C12 as stated: the shape of the signature alone decides the success.
C12_SignatureOnly ==
    Analysed => (parseError = "" <=> SignatureAccepted(method))

C12_Witness ==
    /\ pc = "idle"
    /\ method.In = <<TMetadata, TContext>>
    /\ method.Out = <<TError, TAny>>
    /\ info.InContextPosition = 1
    /\ info.InMetadataPosition = 0
    /\ info.OutErrorPosition = 0
    /\ info.OutResponsePosition = 1

\* No two parameters of a list have the same external name.
DistinctNames(parameters) ==
    \A i, j \in 1..Len(parameters) : i # j => parameters[i].Name # parameters[j].Name

\* C13: in the descriptor of a successful analysis the names of the path
\* parameters are pairwise distinct, and so are the names of the query
\* parameters (aliases included) and of the header parameters.
C13_DistinctNames ==
    (Analysed /\ parseError = "") =>
        /\ DistinctNames(info.PathParameters)
        /\ DistinctNames(info.QueryParameters)
        /\ DistinctNames(info.HeaderParameters)

\* The same for the names that come from different fields.
DistinctAcrossFields ==
    (Analysed /\ parseError = "") =>
        \A parameters \in {info.PathParameters, info.QueryParameters,
                           info.HeaderParameters} :
            \A i, j \in 1..Len(parameters) :
                (i # j /\ parameters[i].FieldName # parameters[j].FieldName)
                    => parameters[i].Name # parameters[j].Name

\* The key of the directive of a field.
DirectiveKey(field) == Str(SplitN2(field.api, ":")[1])

\* A field without a directive, or with the directive "-".
IsSkipped(field) ==
    ~field.Anonymous /\ (field.api = EmptyText \/ DirectiveKey(field) = "-")

\* The method with the skipped fields of its metadata record left out.
WithoutSkipped(f) ==
    [f EXCEPT !.Metadata = SelectSeq(@, LAMBDA field : ~IsSkipped(field))]

\* C14: a field whose directive key is not registered makes the analysis
\* fail; a field without a directive or with the directive "-" gives no
\* binder and no parameter, and the analysis ends as it does for the record
\* without these fields: the same error or the same descriptor.
C14_UnknownAndSkipped ==
    (Analysed /\ SignatureAccepted(method)) =>
        \A declared \in {DeclaredFields(method.Metadata, 1)} :
            /\ (\E i \in 1..Len(declared) :
                    /\ ~IsSkipped(declared[i])
                    /\ DirectiveKey(declared[i]) \notin
                           {"body", "doc", "header", "httpmethod", "httppath",
                            "httprequest", "notes", "path", "produces", "query",
                            "restfulrequest"})
                  => parseError # ""
            /\ \A i \in 1..Len(declared) :
                  (IsSkipped(declared[i]) /\ parseError = "") =>
                      /\ \A k \in 1..Len(info.InputFields) :
                             info.InputFields[k].Name # declared[i].Name
                      /\ \A parameters \in {info.PathParameters, info.QueryParameters,
                                            info.HeaderParameters} :
                             \A k \in 1..Len(parameters) :
                                 parameters[k].FieldName # declared[i].Name
            /\ \A parsed \in {ParseRestfulFunction(WithoutSkipped(method))} :
                  /\ parseError = parsed.err
                  /\ parseError = "" =>
                        [info EXCEPT !.FunctionValue = WithoutSkipped(method)] = parsed.info

\* A record with a field without a directive, a bound field and a field
\* with the directive "-" is analysed: one binder.
C14_Witness ==
    /\ pc = "idle"
    /\ method.Metadata = <<FieldPlain, FieldKey, FieldSkipped>>
    /\ Len(info.InputFields) = 1
    /\ parseError = ""

\* The method with every embedded struct of its metadata record replaced by
\* the fields of that struct, declared at the place of the embedding.
Flattened(f) == [f EXCEPT !.Metadata = DeclaredFields(@, 1)]

\* C15: the analysis of a record that embeds records ends as the analysis
\* of the record with the embedded fields declared directly: both fail, or
\* both succeed with the same binder list, the same path, query and header
\* parameters and the same method, path, doc and notes.
C15_EmbeddingIsFlattening ==
    (Analysed /\ SignatureAccepted(method)) =>
        \A parsed \in {ParseRestfulFunction(Flattened(method))} :
            /\ parseError = "" <=> parsed.err = ""
            /\ parseError = "" =>
                  /\ info.InputFields = parsed.info.InputFields
                  /\ info.PathParameters = parsed.info.PathParameters
                  /\ info.QueryParameters = parsed.info.QueryParameters
                  /\ info.HeaderParameters = parsed.info.HeaderParameters
                  /\ info.HTTPMethod = parsed.info.HTTPMethod
                  /\ info.HTTPPath = parsed.info.HTTPPath
                  /\ info.Doc = parsed.info.Doc
                  /\ info.Notes = parsed.info.Notes

\* A record that embeds a record which embeds two more is analysed.
C15_Witness ==
    /\ pc = "idle"
    /\ method.Metadata = <<Embedded("Nested", <<HTTPMethodPOST, FieldToken>>), FieldKey>>
    /\ [i \in 1..Len(info.InputFields) |-> info.InputFields[i].Name]
           = <<"_", "Token", "Key">>
    /\ info.HTTPMethod = <<"POST">>

-----------------------------------------------------------------------------
(* RestfulWrapper.Register: the routes of a handler-bearing value.          *)
(* A value is [Methods, Fields, Invalid]: the methods reflection lists for  *)
(* it (sorted by name), the fields of the struct it is or points to, and    *)
(* whether dereferencing it ends in the zero reflect.Value.                 *)

APIMethod(name, function) == [Name |-> name, Function |-> function]
APIValue(methods, fields) == [Methods |-> methods, Fields |-> fields, Invalid |-> FALSE]

\* A field of such a struct: its api tag, the kind of its type ("struct" or
\* "pointer" to a struct), whether reflection can set it, whether it is a
\* nil pointer, and the value of its struct type.
APIField(api, kind, settable, isNil, value) ==
    [api |-> api, kind |-> kind, settable |-> settable, isNil |-> isNil,
     Value |-> value]

\* WebService(path): a wrapper around a new restful.WebService.  A map is
\* a reference into the heap (0 is the nil map); a slice is a backing array
\* in the heap (0: none) and a length.
NilMap == 0
NilSlice == [array |-> 0, len |-> 0]
WebService(path) ==
    [ws |-> 1, path |-> path, attributes |-> NilMap, doFunctions |-> NilSlice,
     consumes |-> NilSlice, produces |-> NilSlice, contextActions |-> NilSlice]

\* strings.HasSuffix(text, suffix) for a suffix of one token
HasSuffix(text, suffix) == text # <<>> /\ text[Len(text)] = suffix

\* strings.Trim(text, cutset)
Trim(text, cutset) == TrimLeft(TrimRight(text, cutset), cutset)

\* routePath: the path given to Register joined with the HTTPPath of the
\* analysed method.
RoutePath(path, httpPath) ==
    LET Joined(routePath, cleanPath) ==
            IF cleanPath = EmptyText THEN routePath
            ELSE (IF HasSuffix(routePath, "/") THEN routePath
                  ELSE routePath \o <<"/">>) \o cleanPath
    IN  Joined(<<"/">> \o Trim(path, {"/"}), Trim(httpPath, {"/"}))

\* What r.ws.Route receives: the name of the method, routeWrapper.method,
\* routeWrapper.path and info.HTTPPath.
Route(name, httpMethod, routePath, httpPath) ==
    [Name |-> name, Method |-> httpMethod, Path |-> routePath, HTTPPath |-> httpPath]

\* A route is handed to the web service whether the analysis failed or not.
RegisterMethodAnyway(r, path, m, acc) ==
    LET Parsed(parsed) ==
            [routes |-> Append(acc.routes,
                               Route(m.Name, parsed.info.HTTPMethod,
                                     RoutePath(path, parsed.info.HTTPPath),
                                     r.path \o RoutePath(path, parsed.info.HTTPPath))),
             panicValue |-> IF parsed.err = "" THEN ""
                            ELSE "could not parse function: " \o m.Name \o ": "
                                 \o parsed.err]
    IN  Parsed(ParseRestfulFunction(m.Function))

\* One pass of the loop of Register over the methods: acc is the route
\* table and the panic so far.
RegisterMethod(r, path, m, acc) ==
    LET Routed(name, httpMethod, routePath) ==
            [acc EXCEPT !.routes =
                Append(@, Route(name, httpMethod, routePath, r.path \o routePath))]
        Parsed(parsed) ==
            IF parsed.err # ""
            THEN [acc EXCEPT !.panicValue =
                     "could not parse function: " \o m.Name \o ": " \o parsed.err]
            ELSE Routed(m.Name, parsed.info.HTTPMethod,
                        RoutePath(path, parsed.info.HTTPPath))
    IN  Parsed(ParseRestfulFunction(m.Function))

RECURSIVE RegisterMethods(_, _, _, _, _)
\* The loop of Register over the methods, from method i on.
RegisterMethods(r, path, f, i, acc) ==
    IF acc.panicValue # "" \/ i > Len(f.Methods) THEN acc
    ELSE RegisterMethods(r, path, f, i + 1, RegisterMethod(r, path, f.Methods[i], acc))

\* fieldInterface: a pointer to the field (settable) or to a new value of
\* its type.  For a field of a pointer type that is a pointer to a
\* pointer: it has no methods, and it dereferences to the zero Value when
\* the pointer it points to is nil.
FieldInterface(field) ==
    IF field.kind = "pointer"
    THEN [field.Value EXCEPT !.Methods = <<>>,
                             !.Invalid = (~field.settable \/ field.isNil)]
    ELSE field.Value

\* The path a nested value is registered at.
NestedPath(path, tagPartValue) ==
    TrimRight(path, {"/"}) \o <<"/">> \o TrimLeft(tagPartValue, {"/"})

RECURSIVE RegisterValue(_, _, _, _)
RECURSIVE RegisterTagParts(_, _, _, _, _, _)
RECURSIVE RegisterFields(_, _, _, _, _)

\* The loop over the parts of the api tag of one field.
RegisterTagParts(r, path, field, tagParts, k, acc) ==
    IF acc.panicValue # "" \/ k > Len(tagParts) THEN acc
    ELSE LET Part(tagPartParts) ==
                 IF Str(tagPartParts[1]) = "httppath"
                 THEN RegisterValue(r,
                          NestedPath(path, IF Len(tagPartParts) > 1
                                           THEN tagPartParts[2] ELSE EmptyText),
                          FieldInterface(field), acc)
                 ELSE acc
         IN  RegisterTagParts(r, path, field, tagParts, k + 1,
                              Part(SplitN2(tagParts[k], ":")))

\* The loop of Register over the fields, from field i on.
RegisterFields(r, path, f, i, acc) ==
    IF acc.panicValue # "" \/ i > Len(f.Fields) THEN acc
    ELSE RegisterFields(r, path, f, i + 1,
             IF f.Fields[i].api = EmptyText THEN acc
             ELSE RegisterTagParts(r, path, f.Fields[i],
                                   Split(f.Fields[i].api, ";"), 1, acc))

\* r.Register(ctx, path, f): the methods, then the fields.
RegisterValue(r, path, f, acc) ==
    LET Fields(after) ==
            IF after.panicValue # "" THEN after
            ELSE IF f.Invalid
            THEN [after EXCEPT !.panicValue =
                     "reflect: call of reflect.Value.NumField on zero Value"]
            ELSE RegisterFields(r, path, f, 1, after)
    IN  Fields(RegisterMethods(r, path, f, 1, acc))

-----------------------------------------------------------------------------
(* The values, prefixes and root paths Register is called with. *)

MaxRegistrations == 2

\* The metadata struct of an endpoint with the given httppath.
EndpointMetadata(httpPath) ==
    <<HTTPMethodPOST, Field("_", TString, <<"httppath", ":">> \o httpPath, "")>>

EndpointFunction(metadata) ==
    Handler(<<TContext, TMetadata>>, <<TOutput, TError>>, metadata)

\* API and SubAPI of restfulwrapper_test.go.
SubAPI ==
    APIValue(<<APIMethod("PostEndpoint2", EndpointFunction(<<HTTPMethodPOST, Endpoint, FieldBody>>))>>,
             <<>>)
API ==
    APIValue(<<APIMethod("DeleteEndpoint1",
                         EndpointFunction(EndpointMetadata(<<"/", "endpoint1">>))),
               APIMethod("GetEndpoint1",
                         EndpointFunction(EndpointMetadata(<<"/", "endpoint1">>)))>>,
             <<APIField(<<"httppath", ":", "/", "subapi">>, "struct", FALSE, FALSE, SubAPI)>>)

\* Groups nested three deep, with relative paths and sub-paths written with
\* and without slashes; the first method declares no httppath.
DeepAPI ==
    APIValue(<<APIMethod("Root", EndpointFunction(<<HTTPMethodPOST>>))>>,
        <<APIField(EmptyText, "struct", TRUE, FALSE, SubAPI),
          APIField(<<"httppath", ":", "sub", "/">>, "struct", TRUE, FALSE,
              APIValue(<<APIMethod("List", EndpointFunction(EndpointMetadata(<<"/">>)))>>,
                  <<APIField(<<"httppath", ":", "/", "/", "deep">>, "struct", FALSE, FALSE,
                        APIValue(<<APIMethod("Item",
                                       EndpointFunction(EndpointMetadata(
                                           <<"items", "/", "{id}", "/">>)))>>,
                                 <<>>))>>))>>)

\* A method between two good ones whose httppath directive has no value:
\* the factory returns an error.
BrokenAPI ==
    APIValue(<<APIMethod("Alpha", EndpointFunction(EndpointMetadata(<<"alpha">>))),
               APIMethod("Broken",
                         EndpointFunction(<<FieldToken,
                                            Field("URL", TString, <<"httppath">>, "")>>)),
               APIMethod("Zeta", EndpointFunction(EndpointMetadata(<<"zeta">>)))>>,
             <<APIField(<<"httppath", ":", "/", "subapi">>, "struct", FALSE, FALSE, SubAPI)>>)

\* A nested group with a method whose factory returns an error (a second
\* path parameter of the same name).
DeepBrokenAPI ==
    APIValue(<<APIMethod("Top", EndpointFunction(EndpointMetadata(<<"top">>)))>>,
        <<APIField(<<"httppath", ":", "inner">>, "struct", TRUE, FALSE,
              APIValue(<<APIMethod("Twice",
                             EndpointFunction(<<Endpoint, FieldIdentifier>>))>>,
                       <<>>))>>)

\* A group held by a pointer field: Sub *SubAPI `api:"httppath:/subapi"`,
\* set to a SubAPI, and the same left nil.
PointerAPI ==
    APIValue(<<APIMethod("Top", EndpointFunction(EndpointMetadata(<<"top">>)))>>,
             <<APIField(<<"httppath", ":", "/", "subapi">>, "pointer", TRUE, FALSE, SubAPI)>>)
NilPointerAPI ==
    APIValue(<<APIMethod("Top", EndpointFunction(EndpointMetadata(<<"top">>)))>>,
             <<APIField(<<"httppath", ":", "/", "subapi">>, "pointer", TRUE, TRUE, SubAPI)>>)

\* A relative path with a repeated slash inside.
SlashAPI ==
    APIValue(<<APIMethod("Get", EndpointFunction(EndpointMetadata(<<"a", "/", "/", "b">>)))>>,
             <<>>)

\* Methods whose metadata record declares a verb outside the set of
\* restful's verbs, or no verb, and a method without a metadata parameter.
VerbsAPI ==
    APIValue(<<APIMethod("Fetch",
                         EndpointFunction(<<Field("_", TString,
                                                  <<"httpmethod", ":", "FETCH">>, ""),
                                            Field("_", TString,
                                                  <<"httppath", ":", "/", "fetch">>, "")>>)),
               APIMethod("NoVerb",
                         EndpointFunction(<<Field("_", TString,
                                                  <<"httppath", ":", "/", "noverb">>, "")>>)),
               APIMethod("String", Handler(<<>>, <<TString>>, <<>>))>>,
             <<>>)

APIValues ==
    {SubAPI, API, DeepAPI, BrokenAPI, DeepBrokenAPI, PointerAPI, NilPointerAPI, SlashAPI,
     VerbsAPI}

\* The paths given to WebService and to Register.
RootPaths == {EmptyText, <<"/", "api">>, <<"/", "api", "/">>}
RegisterPaths ==
    {EmptyText, <<"/">>, <<"/", "v1">>, <<"v1", "/">>, <<"/", "/", "v1", "/", "/">>,
     <<"/", "v1", "/", "/", "path">>}

-----------------------------------------------------------------------------
(* Registration as a state machine: a web service is made, then values are  *)
(* registered with it until a Register panics.                              *)

InitRegistrar ==
    /\ InitDispatch
    /\ \E root \in RootPaths : wrappers = <<WebService(root)>>
    /\ heap = <<>>
    /\ acted = 0
    /\ NoRoutes
    /\ NoFunctionMap
    /\ NoOthers

\* wrappers[1].Register(ctx, path, f)
RegisterCall(path, f) ==
    /\ panicValue = ""
    /\ Len(registered) < MaxRegistrations
    /\ \E result \in {RegisterValue(wrappers[1], path, f,
                                    [routes |-> routes, panicValue |-> ""])} :
           /\ routes' = result.routes
           /\ panicValue' = result.panicValue
    /\ registered' = Append(registered, [path |-> path, value |-> f, from |-> Len(routes)])
    /\ acted' = 1
    /\ UNCHANGED <<dispatchVars, wrappers, heap, registryVars>>
    /\ UNCHANGED <<serveVars, parseVars, concurrentVars>>

NextRegistrar == \E path \in RegisterPaths, f \in APIValues : RegisterCall(path, f)

SpecRegistrar == InitRegistrar /\ [][NextRegistrar]_vars

-----------------------------------------------------------------------------
(* Properties of the registration. *)

RECURSIVE Groups(_)
\* A value and the groups nested in it through httppath fields of a struct
\* type, at every depth.
Groups(f) ==
    {f} \cup UNION {Groups(f.Fields[i].Value) :
                       i \in {k \in 1..Len(f.Fields) :
                                 /\ f.Fields[k].kind = "struct"
                                 /\ f.Fields[k].api # EmptyText
                                 /\ DirectiveKey(f.Fields[k]) = "httppath"}}

\* The methods of the values registered so far, nested groups included.
RegisteredMethods ==
    UNION {{g.Methods[i] : i \in 1..Len(g.Methods)} :
              g \in UNION {Groups(registered[k].value) : k \in 1..Len(registered)}}

\* The analysis of the function fails in a directive factory: its signature
\* is accepted and every directive key of its record is registered.
FactoryFails(fn) ==
    /\ SignatureAccepted(fn)
    /\ ~FieldsAccepted(fn)
    /\ \A field \in {DeclaredFields(fn.Metadata, 1)[i] :
                        i \in 1..Len(DeclaredFields(fn.Metadata, 1))} :
           IsSkipped(field) \/ DirectiveKey(field) \in registeredFunctionMap

\* The errors the factories of the built-in directives return for the
\* records of the catalogue.
FactoryErrors ==
    {"missing tag value", "missing tag value: ", "duplicate path tag",
     "duplicate header tag", "duplicate query tag: oldKey", "duplicate query tag: key1"}

\* The error names a field of the record: the top-level field and the
\* field the factory was called for.
NamesTheField(text, metadata) ==
    \E i \in 1..Len(metadata), e \in FactoryErrors :
        \E inner \in {DeclaredFields(<<metadata[i]>>, 1)} :
            \E k \in 1..Len(inner) :
                text = "could not handle field \"" \o metadata[i].Name \o "\": "
                       \o inner[k].Name \o ": " \o e

\* C16: when a directive factory returns an error for a field of the record
\* of a method, the analysis of the method returns no descriptor and an
\* error that names the field, Register panics, and the web service holds
\* no route of that method.
C16_FactoryErrorAborts ==
    \A m \in RegisteredMethods :
        FactoryFails(m.Function) =>
            \A parsed \in {ParseRestfulFunction(m.Function)} :
                /\ parsed.info = NoInfo
                /\ NamesTheField(parsed.err, m.Function.Metadata)
                /\ panicValue # ""
                /\ \A i \in 1..Len(routes) : routes[i].Name # m.Name

\* Register has panicked on the second method of a value after it handed
\* the first to the web service.
C16_Witness ==
    /\ registered # <<>>
    /\ registered[Len(registered)].value = BrokenAPI
    /\ panicValue =
           "could not parse function: Broken: could not handle field \"URL\": URL: missing tag value: "
    /\ routes # <<>>
    /\ routes[Len(routes)].Name = "Alpha"

\* The path begins with one slash, no slash follows a slash, and no
\* segment follows a segment without a slash between them.
IsNormalised(text) ==
    /\ text # <<>>
    /\ text[1] = "/"
    /\ \A i \in 1..(Len(text) - 1) : (text[i] = "/") # (text[i + 1] = "/")

\* C18: the full path recorded for every route (info.HTTPPath) begins with
\* exactly one slash and has no two adjacent slashes and no missing
\* separator, whatever the root path of the web service, the path given to
\* Register and the paths the values declare.
C18_FullPathNormalised ==
    \A i \in 1..Len(routes) : IsNormalised(routes[i].HTTPPath)

\* A slash is repeated inside the text (not only at its ends).
RepeatsInside(text) == ~IsNormalised(<<"/">> \o Trim(text, {"/"}) \o <<"x">>)

\* The same when the root path is empty or a slash and one segment, and no
\* path given to Register or declared by a value repeats a slash inside.
NormalisedForCleanParts ==
    (/\ wrappers # <<>>
     /\ wrappers[1].path \in {EmptyText, <<"/", "api">>}
     /\ \A k \in 1..Len(registered) :
            /\ ~RepeatsInside(registered[k].path)
            /\ registered[k].value # SlashAPI)
        => \A i \in 1..Len(routes) : IsNormalised(routes[i].HTTPPath)

\* The segments of a path: what stands between its slashes.
Segments(text) == SelectSeq(text, LAMBDA token : token # "/")

\* The value of the last httppath directive among the given tags, the
\* empty text without one.
RECURSIVE DeclaredPath(_, _)
DeclaredPath(tags, i) ==
    IF i = 0 THEN EmptyText
    ELSE IF tags[i] # EmptyText /\ Str(SplitN2(tags[i], ":")[1]) = "httppath"
              /\ Len(SplitN2(tags[i], ":")) > 1
    THEN SplitN2(tags[i], ":")[2]
    ELSE DeclaredPath(tags, i - 1)

\* The segments of the relative path the metadata record of a method
\* declares.
RelativeSegments(m) ==
    LET Of(declared) ==
            Segments(DeclaredPath([i \in 1..Len(declared) |-> declared[i].api],
                                  Len(declared)))
    IN  Of(DeclaredFields(m.Function.Metadata, 1))

RECURSIVE Served(_, _)
\* Where the claim places the methods of a value registered under the given
\* segments: its own methods there, and the methods of every field with an
\* httppath directive under the segments of the directive, at every depth.
Served(f, segments) ==
    {[Name |-> f.Methods[i].Name,
      Segments |-> segments \o RelativeSegments(f.Methods[i])] :
        i \in 1..Len(f.Methods)}
    \cup UNION {Served(f.Fields[i].Value,
                       segments \o Segments(SplitN2(f.Fields[i].api, ":")[2])) :
                   i \in {k \in 1..Len(f.Fields) :
                             /\ f.Fields[k].api # EmptyText
                             /\ DirectiveKey(f.Fields[k]) = "httppath"}}

\* The routes the k-th call of Register handed to the web service.
RoutesOf(k) ==
    SubSeq(routes, registered[k].from + 1,
           IF k < Len(registered) THEN registered[k + 1].from ELSE Len(routes))

\* The call has returned: it is not the one that panicked.
Returned(k) == k < Len(registered) \/ panicValue = ""

\* The routes of the k-th call are the methods the claim places, one route
\* each, at the segments the claim gives.
ServesAll(k) ==
    \A served \in {RoutesOf(k)} :
        /\ {[Name |-> served[i].Name, Segments |-> Segments(served[i].HTTPPath)] :
               i \in 1..Len(served)}
              = Served(registered[k].value,
                       Segments(wrappers[1].path) \o Segments(registered[k].path))
        /\ \A i, j \in 1..Len(served) : served[i].Name = served[j].Name => i = j

\* C19: a Register call that returns has handed the web service one route
\* for every method of the value and of every group nested in it through
\* httppath fields, at every depth, each at the root path, the prefix, the
\* sub-paths of the groups above it and its own relative path.
C19_NestedGroupsServed ==
    \A k \in 1..Len(registered) : Returned(k) => ServesAll(k)

\* The same for the values whose groups are fields of a struct type.
StructGroupsServed ==
    \A k \in 1..Len(registered) :
        (Returned(k) /\ registered[k].value \notin {PointerAPI, NilPointerAPI})
            => ServesAll(k)

\* A value with groups three deep has been registered.
DeepGroupServed ==
    /\ registered # <<>>
    /\ registered[1].value = DeepAPI
    /\ registered[1].path = <<"v1", "/">>
    /\ wrappers[1].path = <<"/", "api">>
    /\ Len(routes) = 3
    /\ routes[3].Name = "Item"
    /\ routes[3].HTTPPath =
           <<"/", "api", "/", "v1", "/", "sub", "/", "deep", "/", "items", "/", "{id}">>

-----------------------------------------------------------------------------
(* The registry of directives (register.go). *)

MaxTagCalls == 4

\* The keys and the functions Register is called with.
TagKeys == {"query", "path", "custom"}
RegisterFunctions == {"factory1", "factory2"}

\* What a call of Register leaves: the map, and whether it panicked.
Registration(functions, panicked) == [functions |-> functions, panicked |-> panicked]

\* The entry is written whether the key is present or not.
RegisterTagReplacing(functions, apiTagKey, f) ==
    Registration([k \in DOMAIN functions \cup {apiTagKey} |->
                     IF k = apiTagKey THEN f ELSE functions[k]],
                 apiTagKey \in DOMAIN functions)

\* Register(apiTagKey, f) on the map functions
RegisterTag(functions, apiTagKey, f) ==
    IF apiTagKey \in DOMAIN functions
    THEN Registration(functions, TRUE)
    ELSE Registration([k \in DOMAIN functions \cup {apiTagKey} |->
                          IF k = apiTagKey THEN f ELSE functions[k]],
                      FALSE)

InitRegistry ==
    /\ InitDispatch
    /\ NoWrappers
    /\ NoRoutes
    /\ functionMap = <<>>
    /\ tagCalls = <<>>
    /\ NoOthers

\* A call of Register; a panic is recovered by the caller, and further
\* calls follow.
RegisterTagCall(apiTagKey, f) ==
    /\ Len(tagCalls) < MaxTagCalls
    /\ \E result \in {RegisterTag(functionMap, apiTagKey, f)} :
           /\ functionMap' = result.functions
           /\ tagCalls' = Append(tagCalls, [key |-> apiTagKey, f |-> f,
                                            panicked |-> result.panicked])
    /\ UNCHANGED <<dispatchVars, wrapperVars, registrarVars>>
    /\ UNCHANGED <<serveVars, parseVars, concurrentVars>>

NextRegistry == \E apiTagKey \in TagKeys, f \in RegisterFunctions : RegisterTagCall(apiTagKey, f)

SpecRegistry == InitRegistry /\ [][NextRegistry]_vars

\* C17: a call of Register panics exactly when an earlier call had the same
\* key; the map holds exactly the keys of the calls made, each with the
\* function of the first call that had the key.
C17_FirstRegistrationWins ==
    /\ \A j \in 1..Len(tagCalls) :
           tagCalls[j].panicked <=> \E i \in 1..(j - 1) : tagCalls[i].key = tagCalls[j].key
    /\ DOMAIN functionMap = {tagCalls[j].key : j \in 1..Len(tagCalls)}
    /\ \A j \in 1..Len(tagCalls) :
           (\A i \in 1..(j - 1) : tagCalls[i].key # tagCalls[j].key)
               => functionMap[tagCalls[j].key] = tagCalls[j].f

\* A key is registered, registered again with another function (a panic),
\* and a second key is registered after that.
C17_Witness ==
    /\ Len(tagCalls) = 3
    /\ tagCalls[1] = [key |-> "query", f |-> "factory1", panicked |-> FALSE]
    /\ tagCalls[2] = [key |-> "query", f |-> "factory2", panicked |-> TRUE]
    /\ tagCalls[3] = [key |-> "custom", f |-> "factory2", panicked |-> FALSE]
    /\ functionMap["query"] = "factory1"
    /\ functionMap["custom"] = "factory2"

-----------------------------------------------------------------------------
(* Sessions of a wrapper (Session, Attributes, Consumes, Do, Produces,      *)
(* ContextAction).  The heap is a sequence of objects, maps and backing     *)
(* arrays, and a reference is a position in it.  Each operator returns the  *)
(* wrapper and the heap the call leaves.                                    *)

MaxWrappers == 2
MaxItems == 2
MaxWrapperCalls == 4

Allocated(wrapper, objects) == [wrapper |-> wrapper, heap |-> objects]

\* cap(s) and s[:len(s)] of a slice
Capacity(objects, s) == IF s.array = 0 THEN 0 ELSE Len(objects[s.array])
Elements(objects, s) == IF s.array = 0 THEN <<>> ELSE SubSeq(objects[s.array], 1, s.len)

\* append(s, items...): in place when the capacity allows it, otherwise
\* into a new backing array of twice the capacity or of the length needed.
GoAppend(objects, s, items) ==
    LET length == s.len + Len(items)
        Cells(capacity) ==
            [c \in 1..capacity |->
                IF c <= s.len THEN objects[s.array][c]
                ELSE IF c <= length THEN items[c - s.len]
                ELSE ""]
    IN  IF items = <<>> THEN [slice |-> s, heap |-> objects]
        ELSE IF length <= Capacity(objects, s)
        THEN [slice |-> [s EXCEPT !.len = length],
              heap |-> [objects EXCEPT ![s.array] = Cells(Len(@))]]
        ELSE [slice |-> [array |-> Len(objects) + 1, len |-> length],
              heap |-> Append(objects,
                              Cells(IF 2 * Capacity(objects, s) > length
                                    THEN 2 * Capacity(objects, s) ELSE length))]

\* r.<field> = append(r.<field>, items...)
AppendTo(objects, r, field, items) ==
    LET Appended(a) == Allocated([r EXCEPT ![field] = a.slice], a.heap)
    IN  Appended(GoAppend(objects, r[field], items))

\* The new wrapper is the old one: the same map and the same backing arrays.
SessionShallow(objects, r) == Allocated(r, objects)

\* r.Session(): a new map with the attributes of r, and new slices with
\* the elements of the slices of r.
Session(objects, r) ==
    LET Copy(new, field) == AppendTo(new.heap, new.wrapper, field, Elements(objects, r[field]))
        newWrapper ==
            [ws |-> r.ws, path |-> r.path, attributes |-> Len(objects) + 1,
             doFunctions |-> NilSlice, consumes |-> NilSlice, produces |-> NilSlice,
             contextActions |-> NilSlice]
    IN  Copy(Copy(Copy(Copy(
            Allocated(newWrapper,
                      Append(objects, IF r.attributes = NilMap THEN <<>>
                                      ELSE objects[r.attributes])),
            "doFunctions"), "consumes"), "produces"), "contextActions")

\* r.Attributes(attributes)
Attributes(objects, r, attributes) ==
    LET Set(made) ==
            Allocated(made.wrapper,
                      [made.heap EXCEPT ![made.wrapper.attributes] =
                          [k \in DOMAIN @ \cup DOMAIN attributes |->
                              IF k \in DOMAIN attributes THEN attributes[k] ELSE @[k]]])
    IN  Set(IF r.attributes = NilMap
            THEN Allocated([r EXCEPT !.attributes = Len(objects) + 1],
                           Append(objects, <<>>))
            ELSE Allocated(r, objects))

\* r.Consumes(contentTypes...)
Consumes(objects, r, contentTypes) == AppendTo(objects, r, "consumes", contentTypes)
\* r.Do(doFunctions...)
Do(objects, r, doFunctions) == AppendTo(objects, r, "doFunctions", doFunctions)
\* r.Produces(contentTypes...)
Produces(objects, r, contentTypes) == AppendTo(objects, r, "produces", contentTypes)
\* w.ContextAction(f...)
ContextAction(objects, w, f) == AppendTo(objects, w, "contextActions", f)

\* What a wrapper holds: the contents of its map and of its slices.
View(objects, r) ==
    [isNil |-> r.attributes = NilMap,
     attributes |-> IF r.attributes = NilMap THEN <<>> ELSE objects[r.attributes],
     doFunctions |-> Elements(objects, r.doFunctions),
     consumes |-> Elements(objects, r.consumes),
     produces |-> Elements(objects, r.produces),
     contextActions |-> Elements(objects, r.contextActions)]

Views == [i \in 1..Len(wrappers) |-> View(heap, wrappers[i])]

\* The arguments of the calls.
AttributeMaps == {[k \in {"user"} |-> "alice"], [k \in {"user", "tenant"} |-> "bob"]}
ContentTypes == {<<"application/json">>, <<"application/xml">>}
DoFunctions == {<<"do1">>}
ContextActions == {<<"action1">>}

InitWrapper ==
    /\ InitDispatch
    /\ wrappers = <<WebService(<<"/", "api">>)>>
    /\ heap = <<>>
    /\ acted = [wrapper |-> 0, op |-> "WebService", calls |-> 0, before |-> <<>>]
    /\ NoRoutes
    /\ NoFunctionMap
    /\ NoOthers

\* The call op on wrappers[i] has left the wrapper and the heap of made.
Called(i, op, made) ==
    /\ wrappers' = [wrappers EXCEPT ![i] = made.wrapper]
    /\ heap' = made.heap
    /\ acted' = [wrapper |-> i, op |-> op, calls |-> acted.calls + 1, before |-> Views]
    /\ UNCHANGED <<dispatchVars, registrarVars, registryVars>>
    /\ UNCHANGED <<serveVars, parseVars, concurrentVars>>

\* s := wrappers[i].Session()
CallSession(i) ==
    /\ acted.calls < MaxWrapperCalls
    /\ Len(wrappers) < MaxWrappers
    /\ \E made \in {Session(heap, wrappers[i])} :
           /\ wrappers' = Append(wrappers, made.wrapper)
           /\ heap' = made.heap
    /\ acted' = [wrapper |-> i, op |-> "Session", calls |-> acted.calls + 1,
                 before |-> Views]
    /\ UNCHANGED <<dispatchVars, registrarVars, registryVars>>
    /\ UNCHANGED <<serveVars, parseVars, concurrentVars>>

CallAttributes(i, attributes) ==
    /\ acted.calls < MaxWrapperCalls
    /\ \E made \in {Attributes(heap, wrappers[i], attributes)} :
           Called(i, "Attributes", made)

CallConsumes(i, contentTypes) ==
    /\ acted.calls < MaxWrapperCalls
    /\ wrappers[i].consumes.len + Len(contentTypes) <= MaxItems
    /\ \E made \in {Consumes(heap, wrappers[i], contentTypes)} :
           Called(i, "Consumes", made)

CallDo(i, doFunctions) ==
    /\ acted.calls < MaxWrapperCalls
    /\ wrappers[i].doFunctions.len + Len(doFunctions) <= MaxItems
    /\ \E made \in {Do(heap, wrappers[i], doFunctions)} :
           Called(i, "Do", made)

CallProduces(i, contentTypes) ==
    /\ acted.calls < MaxWrapperCalls
    /\ wrappers[i].produces.len + Len(contentTypes) <= MaxItems
    /\ \E made \in {Produces(heap, wrappers[i], contentTypes)} :
           Called(i, "Produces", made)

CallContextAction(i, f) ==
    /\ acted.calls < MaxWrapperCalls
    /\ wrappers[i].contextActions.len + Len(f) <= MaxItems
    /\ \E made \in {ContextAction(heap, wrappers[i], f)} :
           Called(i, "ContextAction", made)

NextWrapper ==
    \E i \in 1..Len(wrappers) :
        \/ CallSession(i)
        \/ \E attributes \in AttributeMaps : CallAttributes(i, attributes)
        \/ \E contentTypes \in ContentTypes : CallConsumes(i, contentTypes)
        \/ \E doFunctions \in DoFunctions : CallDo(i, doFunctions)
        \/ \E contentTypes \in ContentTypes : CallProduces(i, contentTypes)
        \/ \E f \in ContextActions : CallContextAction(i, f)

SpecWrapper == InitWrapper /\ [][NextWrapper]_vars

\* C20: a call on one wrapper leaves what every other wrapper holds as it
\* was before the call: attributes, do-functions, consumes, produces and
\* context actions; a Session call leaves the wrapper it is made on as it
\* was and gives the new wrapper the same contents; all wrappers share
\* the web service.
C20_SessionIsolation ==
    /\ \A j \in 1..Len(acted.before) :
           (j # acted.wrapper \/ acted.op = "Session")
               => View(heap, wrappers[j]) = acted.before[j]
    /\ acted.op = "Session" =>
           /\ Len(wrappers) = Len(acted.before) + 1
           /\ \A copy \in {View(heap, wrappers[Len(wrappers)])},
                 origin \in {acted.before[acted.wrapper]} :
                  /\ copy.doFunctions = origin.doFunctions
                  /\ copy.consumes = origin.consumes
                  /\ copy.produces = origin.produces
                  /\ copy.contextActions = origin.contextActions
                  /\ copy.attributes = origin.attributes
                  /\ ~copy.isNil
    /\ \A j \in 1..Len(wrappers) : wrappers[j].ws = wrappers[1].ws

\* The session has been given a content type and an attribute the wrapper
\* it was made from does not have.
C20_Witness ==
    /\ Len(wrappers) = 2
    /\ acted.wrapper = 2
    /\ acted.op = "Attributes"
    /\ View(heap, wrappers[1]).attributes = [k \in {"user"} |-> "alice"]
    /\ View(heap, wrappers[2]).attributes = [k \in {"user", "tenant"} |-> "bob"]

-----------------------------------------------------------------------------
(* Required headers. *)

\* The entries of info.InputFields that the header directive made.
HeaderBinders ==
    {j \in 1..Len(info.InputFields) : info.InputFields[j].Function.key = "header"}

\* A request is being dispatched, and it does not carry the header of binder j.
HeaderMissing(j) ==
    /\ pc \in {"bind", "invoke", "render", "done", "panic"}
    /\ Lookup(req.Header, info.InputFields[j].Function.arg, EmptyText) = EmptyText

\* The handler has not been invoked, and when binder j was the last to run
\* the response is a 400 header-parameter error that names its header.
RejectedForHeader(j) ==
    /\ calls = 0
    /\ (pc = "done" /\ executed # <<>> /\ executed[Len(executed)] = j) =>
          /\ err.writer = "header"
          /\ Len(writes) = 1
          /\ writes[1].status = StatusBadRequest
          /\ writes[1].entity.parameter = Str(info.InputFields[j].Function.arg)

\* C24: a request that does not carry a header declared with header:<name>
\* never reaches the handler, whatever the type of the field, and is
\* answered with a 400 header-parameter error naming <name>.
C24_HeaderRequired ==
    \A j \in HeaderBinders : HeaderMissing(j) => RejectedForHeader(j)

\* The same for the fields that are not of kind string: the parsers of the
\* other kinds reject the empty text.
HeaderRequiredUnlessString ==
    \A j \in HeaderBinders :
        (HeaderMissing(j) /\ info.InputFields[j].Function.field.Type.kind # "string")
            => RejectedForHeader(j)

\* A request without its integer header has been answered.
HeaderRejected ==
    /\ pc = "done"
    /\ \E j \in HeaderBinders :
           /\ HeaderMissing(j)
           /\ executed[Len(executed)] = j
           /\ info.InputFields[j].Function.field.Type.kind = "int"

-----------------------------------------------------------------------------
(* The metadata argument. *)

\* The metadata parameter of the analysed handler is a pointer.
PointerMetadata ==
    /\ info.InMetadataPosition >= 0
    /\ info.FunctionValue.In[info.InMetadataPosition + 1].kind = "pointer"

\* The binders that ran, each on the field of its name, left the record as
\* it is.
HoldsBoundValues ==
    \A k \in 1..Len(executed) :
        LET inputField == info.InputFields[executed[k]]
            bound == RunBinder(inputField.Function,
                               FieldByName(info.FunctionValue.Metadata, inputField.Name),
                               req, info)
        IN  bound.set => inputValue[inputField.Name] = bound.value

\* C28: for every handler accepted by analysis, one with a pointer metadata
\* parameter included, the Bind step of a dispatch ends without a fault and
\* the handler is invoked with a populated record: every binder of the
\* descriptor has run and the fields hold the values bound.
C28_BindCompletes ==
    /\ pc # "panic"
    /\ (calls > 0 /\ info.InMetadataPosition >= 0) =>
           /\ Len(executed) = Len(info.InputFields)
           /\ HoldsBoundValues

\* The same for the handlers whose metadata parameter is the record itself
\* and whose directive fields are all exported.
BindCompletesForRecords ==
    (~PointerMetadata /\ \A j \in 1..Len(info.InputFields) :
                             \/ Exported(info.InputFields[j].Name)
                             \/ info.InputFields[j].Function.key \notin {"header", "path", "query", "body"})
        => C28_BindCompletes

\* A handler with a record parameter has been invoked with two bound fields.
RecordBound ==
    /\ calls > 0
    /\ ~PointerMetadata
    /\ Len(executed) = 2
    /\ \A k \in 1..2 : info.InputFields[executed[k]].Name \in DOMAIN inputValue

-----------------------------------------------------------------------------
(* The directive string of a field. *)

RECURSIVE SplitFields(_, _)
\* The fields with every field whose tag has several ";"-separated parts
\* replaced by one field per part.
SplitFields(fields, i) ==
    IF i > Len(fields) THEN <<>>
    ELSE LET field == fields[i]
             parts == Split(field.api, ";")
         IN  (IF field.Anonymous THEN <<[field EXCEPT !.Fields = SplitFields(@, 1)]>>
              ELSE IF field.api = EmptyText THEN <<field>>
              ELSE [k \in 1..Len(parts) |-> [field EXCEPT !.api = parts[k]]])
             \o SplitFields(fields, i + 1)

\* The method whose metadata record carries one directive per field.
SplitDirectives(f) == [f EXCEPT !.Metadata = SplitFields(@, 1)]

\* The directive and the field name of every binder.
BinderDirectives(inf) ==
    [j \in 1..Len(inf.InputFields) |->
        <<inf.InputFields[j].Name, inf.InputFields[j].Function.key,
          inf.InputFields[j].Function.arg>>]

\* C26: the tag of a metadata-record field is split on ";" and each part on
\* its first ":", so the analysis ends as it does when every part is a
\* directive of its own: the same error, or the same binders, parameters,
\* method, path, doc and notes.
C26_DirectiveList ==
    (Analysed /\ SignatureAccepted(method)) =>
        \A parsed \in {ParseRestfulFunction(SplitDirectives(method))} :
            /\ parseError = parsed.err
            /\ parseError = "" =>
                  /\ BinderDirectives(info) = BinderDirectives(parsed.info)
                  /\ info.PathParameters = parsed.info.PathParameters
                  /\ info.QueryParameters = parsed.info.QueryParameters
                  /\ info.HeaderParameters = parsed.info.HeaderParameters
                  /\ info.HTTPMethod = parsed.info.HTTPMethod
                  /\ info.HTTPPath = parsed.info.HTTPPath
                  /\ info.Doc = parsed.info.Doc
                  /\ info.Notes = parsed.info.Notes

RECURSIVE DirectiveFields(_, _)
\* The fields that carry a directive other than "-", embedded ones included.
DirectiveFields(fields, i) ==
    IF i > Len(fields) THEN {}
    ELSE (IF fields[i].Anonymous THEN DirectiveFields(fields[i].Fields, 1)
          ELSE IF IsSkipped(fields[i]) THEN {}
          ELSE {fields[i]})
         \cup DirectiveFields(fields, i + 1)

\* What the analysis does with a tag: the key is the text before the first
\* ":" of the whole tag and the value is all the text after it.
WholeTagIsOneDirective ==
    (Analysed /\ parseError = "") =>
        /\ \A j \in 1..Len(info.InputFields) :
               \E field \in DirectiveFields(method.Metadata, 1) :
                   \A parts \in {SplitN2(field.api, ":")} :
                       /\ info.InputFields[j].Name = field.Name
                       /\ info.InputFields[j].Function.key = Str(parts[1])
                       /\ info.InputFields[j].Function.arg =
                              (IF Len(parts) > 1 THEN parts[2] ELSE EmptyText)
        /\ Len(info.InputFields) <= Cardinality(DirectiveFields(method.Metadata, 1))

\* A tag of two directives has been analysed as one header directive.
TwoDirectivesAsOne ==
    /\ pc = "idle"
    /\ method.Metadata = <<FieldBoth>>
    /\ info.HeaderParameters # <<>>
    /\ info.HeaderParameters[1].Name = <<"X-A", ";", "query", ":", "b">>
    /\ info.QueryParameters = <<>>

-----------------------------------------------------------------------------
(* The body directive. *)

\* The fields of the record of f that carry the body directive.
BodyFields(f) ==
    {field \in DirectiveFields(f.Metadata, 1) : DirectiveKey(field) = "body"}

\* The value of the directive of a field: the text after the first ":".
DirectiveValue(field) ==
    LET Value2(parts) == IF Len(parts) > 1 THEN parts[2] ELSE EmptyText
    IN  Value2(SplitN2(field.api, ":"))

IsURLValues(type) == type.name \in {"url.Values", "*url.Values"}
IsMultipartForm(type) == type.name \in {"multipart.Form", "*multipart.Form"}

\* The tag of the field declares no consumes list.
NoDeclaredConsumes(field) ==
    \A k \in 1..Len(Split(DirectiveValue(field), ";")) :
        Str(SplitN2(Split(DirectiveValue(field), ";")[k], ":")[1]) # "consumes"

\* The record of f has one body field, so the consumes list its factory
\* leaves is the list of the route.
OneBodyField(f) == Cardinality(BodyFields(f)) = 1

FormDefaultAnalysed ==
    /\ pc = "idle"
    /\ method.Metadata = <<FieldFormPointer>>
    /\ info.Consumes = <<FormURLEncoded>>

\* A multipart.Form field that also declares JSON has been analysed.
UploadOrJSONAnalysed ==
    /\ pc = "idle"
    /\ method.Metadata = <<FieldUploadOrJSON>>
    /\ info.Consumes = <<MultipartFormData, ApplicationJSON>>

\* The positions in executed of the body binders that read the body of the
\* request being dispatched.
BodyBindings ==
    {k \in 1..Len(executed) :
        /\ info.InputFields[executed[k]].Function.key = "body"
        /\ ~info.InputFields[executed[k]].Function.allowEmpty
        /\ req.BodyError = NoError}

\* The binder that ran at position k of executed ended as the branch for
\* the given content type ends, and the field holds what that branch makes
\* of the body.
DecodedFor(k, contentType) ==
    LET inputField == info.InputFields[executed[k]]
        fn == inputField.Function
    IN  \A claimed \in {DecodeBody(BodyBranch(contentType, fn.field.Type), fn, req)} :
            /\ RunBinder(fn, FieldByName(info.FunctionValue.Metadata, inputField.Name),
                         req, info) = claimed
            /\ claimed.err # NoError => (pc \in {"render", "done"} => err = claimed.err)
            /\ claimed.err = NoError => inputValue[inputField.Name] = claimed.value

\* C25: the body binder takes the branch (URL-encoded form, multipart form,
\* raw bytes or string, structured decoding) of the content type of the
\* request it runs for, also on a route that consumes several types.
C25_BranchOfTheRequest ==
    \A k \in BodyBindings : DecodedFor(k, req.ContentType)

\* What the binder goes by: the first consumed type of the descriptor,
\* whatever the request carries.
BranchOfTheFirstConsumedType ==
    \A k \in BodyBindings : DecodedFor(k, BodyContentType(info))

\* On a route with at most one consumed type the two agree.
BranchOfTheOnlyConsumedType ==
    Len(info.Consumes) <= 1 => C25_BranchOfTheRequest

\* A JSON request to a route that consumes the form type and JSON, in that
\* order, has been bound through ParseForm.
JSONBoundAsForm ==
    /\ pc = "invoke"
    /\ info.Consumes = <<FormURLEncoded, ApplicationJSON>>
    /\ req.ContentType = ApplicationJSON
    /\ inputValue["Form"] = Scalar(<<"PostForm">>)

-----------------------------------------------------------------------------
(* Functions created with an error handler (ParseRestfulFunction followed   *)
(* by CreateFunctionWithError, as in info-parse_test.go).                  *)

\* The handlers the functions are created from.
CreateHandlers ==
    {Handler(in, out, SmallStruct) :
        in \in {<<TMetadata>>, <<TContext, TMetadata>>},
        out \in {<<>>, <<TError>>, <<TAny>>, <<TAny, TError>>, <<TError, TAny>>}}
    \cup {Handler(<<TContext, TMetadata>>, <<TOutput, TError>>, <<FieldToken, FieldBody>>)}

\* output, err := ParseRestfulFunction(f);
\* function := output.CreateFunctionWithError(handler)
Create(f, handler) ==
    /\ pc = "start"
    /\ \E parsed \in {ParseRestfulFunction(f)} :
           /\ info' = parsed.info
           /\ parseError' = parsed.err
           /\ pc' = IF parsed.err # "" THEN "rejected" ELSE "idle"
    /\ errorHandler' = handler
    /\ method' = f
    /\ UNCHANGED <<req, inputValue, idx, executed, calls, phases, methodResults,
                   err, writes, handled>>
    /\ UNCHANGED <<wrapperVars, registrarVars, registryVars>>
    /\ UNCHANGED <<serveVars, parseVars, concurrentVars>>

NextCreate ==
    \/ \E f \in CreateHandlers, handler \in ErrorHandlers : Create(f, handler)
    \/ \E request \in Requests(info) : Receive(request)
    \/ BindStep
    \/ BindDone
    \/ \E results \in HandlerResults(info.FunctionValue) : Invoke(results)
    \/ Render
    \/ Finish

SpecCreate == Init /\ [][NextCreate]_vars

\* The error the handler returned in its error slot (NoError for nil, and
\* when it has no error slot or has not returned).
ReturnedError ==
    IF calls > 0 /\ info.OutErrorPosition >= 0
    THEN methodResults[info.OutErrorPosition + 1] ELSE NoError

\* A write of a success response.
IsSuccessWrite(w) == w.op = "Write" \/ w.status = StatusOK

\* C30: the error handler is called only with a non-nil error the handler
\* returned, never for a binder error and never on success; the error it
\* returns, when not nil, is the error rendered, and when it returns nil
\* the error of the handler is; a request whose handler returned an error
\* never gets a success response.
C30_ErrorHandler ==
    /\ handled # <<>> =>
          /\ errorHandler # NoErrorHandler
          /\ ReturnedError # NoError
          /\ handled = <<ReturnedError>>
    /\ (ReturnedError # NoError /\ errorHandler # NoErrorHandler) =>
          handled = <<ReturnedError>>
    /\ ReturnedError # NoError =>
          /\ err # NoError
          /\ err = (IF handled # <<>> /\ ApplyErrorHandler(errorHandler, ReturnedError) # NoError
                    THEN ApplyErrorHandler(errorHandler, ReturnedError)
                    ELSE ReturnedError)
          /\ pc = "done" =>
                 /\ writes = ErrorWrites(err)
                 /\ \A i \in 1..Len(writes) : ~IsSuccessWrite(writes[i])
    /\ (calls > 0 /\ ReturnedError = NoError) => err = NoError

\* A handler error has been rendered as the error handler replaced it.
C30_Witness ==
    /\ pc = "done"
    /\ errorHandler = "forbid"
    /\ ReturnedError = PlainError("some error")
    /\ handled = <<PlainError("some error")>>
    /\ writes[1].status = StatusForbidden

\* The error handler returned nil and the error of the handler was rendered.
HandlerErrorKept ==
    /\ pc = "done"
    /\ errorHandler = "keep"
    /\ handled = <<PlainError("some error")>>
    /\ writes[1].status = StatusInternalServerError

\* A binder failed on a route that has an error handler.
BinderFailedUnhandled ==
    /\ pc = "done"
    /\ errorHandler = "forbid"
    /\ BinderFailed
    /\ handled = <<>>

-----------------------------------------------------------------------------
(* The verbs of the routes. *)

\* The verbs restful.WebService has a method for.
Verbs == {<<"DELETE">>, <<"GET">>, <<"OPTIONS">>, <<"PATCH">>, <<"POST">>, <<"PUT">>}

\* C27: every route handed to the web service has one of the verbs DELETE,
\* GET, OPTIONS, PATCH, POST, PUT; a method without an httpmethod
\* directive, without a metadata parameter or with another verb gives no
\* route.
C27_VerbsOfRoutes ==
    \A k \in 1..Len(routes) : routes[k].Method \in Verbs

\* What Register does: every method of the value that the analysis accepts
\* gives a route, with the verb its httpmethod directive holds or with the
\* empty verb.
VerbIsTheDirective ==
    \A k \in 1..Len(registered) :
        \A i \in 1..Len(registered[k].value.Methods) :
            \A parsed \in {ParseRestfulFunction(registered[k].value.Methods[i].Function)} :
                (parsed.err = "" /\ Returned(k)) =>
                    \E j \in 1..Len(RoutesOf(k)) :
                        /\ RoutesOf(k)[j].Name = registered[k].value.Methods[i].Name
                        /\ RoutesOf(k)[j].Method = parsed.info.HTTPMethod

\* The three methods of VerbsAPI have been given routes.
RoutesWithoutVerb ==
    /\ Len(registered) = 1
    /\ registered[1].value = VerbsAPI
    /\ [k \in 1..Len(routes) |-> routes[k].Method] = <<<<"FETCH">>, EmptyText, EmptyText>>

-----------------------------------------------------------------------------
(* Routes built from a wrapper (Register, Method, RouteBuilder), and the    *)
(* requests to them.  A route keeps what its builder was given: the map     *)
(* filterSetAttributes captured, the wrapper the context-action filter      *)
(* captured, the slices Consumes and Produces were called with, and the     *)
(* do-functions that were applied to the builder.                           *)

MaxRoutes == 1
MaxServingCalls == 3

\* The handlers the routes are built for: one declares no content type,
\* the other consumes a form.
RouteHandlers ==
    {EndpointFunction(<<HTTPMethodPOST>>), EndpointFunction(<<HTTPMethodPOST, FieldForm>>)}

\* routeWrapper.RouteBuilder() followed by info.UpdateRouteBuilder: the
\* wrapper's content types are given to the builder when there are some,
\* and the descriptor's replace them when there are some.
RouteBuilder(objects, i, r, inf) ==
    [wrapper |-> i,
     attributes |-> r.attributes,
     doFunctions |-> Elements(objects, r.doFunctions),
     consumes |-> IF r.consumes.len > 0 THEN r.consumes ELSE NilSlice,
     produces |-> IF r.produces.len > 0 THEN r.produces ELSE NilSlice,
     info |-> inf]

\* What a request to the route of builder b meets: the attributes
\* filterSetAttributes sets on it, the context actions applyContextActions
\* runs, the content types of the route and the do-functions that have
\* shaped it.
RouteView(objects, ws, b) ==
    [attributes |-> IF b.attributes = NilMap THEN <<>> ELSE objects[b.attributes],
     contextActions |-> Elements(objects, ws[b.wrapper].contextActions),
     consumes |-> IF Len(b.info.Consumes) > 0 THEN <<>> ELSE Elements(objects, b.consumes),
     produces |-> IF Len(b.info.Produces) > 0 THEN <<>> ELSE Elements(objects, b.produces),
     declared |-> <<b.info.Consumes, b.info.Produces>>,
     doFunctions |-> b.doFunctions]

\* wrappers[i].Register(ctx, path, value) for a method f of the value.
RegisterRoute(i, f) ==
    /\ Len(builders) < MaxRoutes
    /\ \E parsed \in {ParseRestfulFunction(f)} :
           /\ parsed.err = ""
           /\ \E b \in {RouteBuilder(heap, i, wrappers[i], parsed.info)} :
                  builders' = Append(builders,
                                     [builder |-> b,
                                      registered |-> RouteView(heap, wrappers, b)])
    /\ acted' = [wrapper |-> i, op |-> "Register", calls |-> acted.calls, before |-> Views]
    /\ UNCHANGED <<wrappers, heap, seen>>
    /\ UNCHANGED <<dispatchVars, registrarVars, registryVars, parseVars, concurrentVars>>

\* A request to the k-th route passes its filters.
ServeRequest(k) ==
    /\ seen' = [route |-> k, view |-> RouteView(heap, wrappers, builders[k].builder)]
    /\ seen' # seen
    /\ UNCHANGED <<builders, wrapperVars>>
    /\ UNCHANGED <<dispatchVars, registrarVars, registryVars, parseVars, concurrentVars>>

NextServing ==
    \/ acted.calls < MaxServingCalls /\ NextWrapper
    \/ \E i \in 1..Len(wrappers) : \E f \in RouteHandlers : RegisterRoute(i, f)
    \/ \E k \in 1..Len(builders) : ServeRequest(k)

SpecServing == InitWrapper /\ [][NextServing]_vars

\* C29: a request to a route meets the attributes, context actions,
\* consumed and produced content types and do-functions the wrapper had
\* when Register returned, whatever has been added to the wrapper since.
C29_FixedAtRegister ==
    seen # <<>> => seen.view = builders[seen.route].registered

\* The content types and the do-functions are those of the registration,
\* and so are the attributes of a wrapper that had none when the route was
\* registered.
ContentTypesFixedAtRegister ==
    seen # <<>> =>
        \A at \in {builders[seen.route].registered} :
            /\ seen.view.consumes = at.consumes
            /\ seen.view.produces = at.produces
            /\ seen.view.declared = at.declared
            /\ seen.view.doFunctions = at.doFunctions
            /\ builders[seen.route].builder.attributes = NilMap =>
                   seen.view.attributes = at.attributes

\* A request has met an attribute and a context action that were added to
\* the wrapper after its route was registered.
AddedAfterRegisterSeen ==
    /\ seen # <<>>
    /\ builders[seen.route].registered.attributes = [k \in {"user"} |-> "alice"]
    /\ seen.view.attributes = [k \in {"user", "tenant"} |-> "bob"]
    /\ builders[seen.route].registered.contextActions = <<>>
    /\ seen.view.contextActions = <<"action1">>

\* A content type and a do-function were added to the wrapper after the
\* route was registered, and the request met those of the registration.
AddedAfterRegisterNotSeen ==
    /\ seen # <<>>
    /\ \A r \in {View(heap, wrappers[builders[seen.route].builder.wrapper])} :
           /\ r.consumes = <<"application/json", "application/xml">>
           /\ r.doFunctions = <<"do1">>
    /\ seen.view.consumes = <<"application/json">>
    /\ seen.view.doFunctions = <<>>

-----------------------------------------------------------------------------
(* Integers and their texts.  An integer is [neg, mag] and a magnitude is   *)
(* three limbs [a, b, c] in base 10^7, which holds every magnitude below    *)
(* 10^21; the ranges of the integer kinds are computed from 2^(w-1) in      *)
(* this arithmetic, not from the tables the parser compares digits with.    *)

RECURSIVE Power(_, _)
Power(b, k) == IF k = 0 THEN 1 ELSE b * Power(b, k - 1)

Limb == Power(10, 7)

Mag(a, b, c) == [a |-> a, b |-> b, c |-> c]
Small(c) == Mag(0, 0, c)

\* the limbs of a sum of limbs a, b and c, the carries moved up
Carried(a, b, c) ==
    Mag(a + ((b + (c \div Limb)) \div Limb), (b + (c \div Limb)) % Limb, c % Limb)

MagAdd(x, y) == Carried(x.a + y.a, x.b + y.b, x.c + y.c)
\* x * m for a factor m of at most 2^7, which keeps every limb in range
MagTimes(x, m) == Carried(x.a * m, x.b * m, x.c * m)

\* x - 1 for x > 0
MagPred(x) ==
    IF x.c > 0 THEN Mag(x.a, x.b, x.c - 1)
    ELSE IF x.b > 0 THEN Mag(x.a, x.b - 1, Limb - 1)
    ELSE Mag(x.a - 1, Limb - 1, Limb - 1)

MagLess(x, y) ==
    \/ x.a < y.a
    \/ x.a = y.a /\ x.b < y.b
    \/ x.a = y.a /\ x.b = y.b /\ x.c < y.c

RECURSIVE Pow2(_)
Pow2(k) == IF k <= 7 THEN Small(Power(2, k)) ELSE MagTimes(Pow2(k - 7), Power(2, 7))

Widths == {8, 16, 32, 64}

\* 2^(w-1) and 2^w for the widths w
PowersOfTwo == [k \in {w - 1 : w \in Widths} \cup Widths |-> Pow2(k)]

Integer(neg, mag) == [neg |-> neg /\ mag # Small(0), mag |-> mag]

\* n is a value of the integer kind: -2^(w-1) <= n < 2^(w-1) for a signed
\* kind of w bits, 0 <= n < 2^w for an unsigned one.
InRange(n, kind) ==
    IF kind \in SignedKinds
    THEN IF n.neg THEN ~MagLess(PowersOfTwo[Bits(kind) - 1], n.mag)
         ELSE MagLess(n.mag, PowersOfTwo[Bits(kind) - 1])
    ELSE ~n.neg /\ MagLess(n.mag, PowersOfTwo[Bits(kind)])

DigitOf == <<"0", "1", "2", "3", "4", "5", "6", "7", "8", "9">>

RECURSIVE LimbText(_, _)
\* the last width digits of v
LimbText(v, width) ==
    IF width = 0 THEN <<>> ELSE LimbText(v \div 10, width - 1) \o <<DigitOf[(v % 10) + 1]>>

\* strconv.FormatInt(n, 10): the base-10 text of n
FormatInt(n) ==
    (IF n.neg THEN <<"-">> ELSE <<>>)
        \o Magnitude(LimbText(n.mag.a, 7) \o LimbText(n.mag.b, 7) \o LimbText(n.mag.c, 7))

RECURSIVE LimbOf(_)
LimbOf(digits) ==
    IF digits = <<>> THEN 0
    ELSE 10 * LimbOf(SubSeq(digits, 1, Len(digits) - 1)) + DigitValue[digits[Len(digits)]]

\* The integer a stored value is: the value of its digits, negated under a
\* leading "-".
StoredInt(value) ==
    LET neg == value # <<>> /\ Head(value) = "-"
        digits == IF neg THEN Tail(value) ELSE value
        padded == [i \in 1..(21 - Len(digits)) |-> "0"] \o digits
    IN  Integer(neg, Mag(LimbOf(SubSeq(padded, 1, 7)), LimbOf(SubSeq(padded, 8, 14)),
                         LimbOf(SubSeq(padded, 15, 21))))

FixedWidthKinds ==
    {"int8", "int16", "int32", "int64", "uint8", "uint16", "uint32", "uint64"}
\* The integers parsed: small ones, and for every width w the integers
\* around 2^(w-1) and 2^w, of both signs.
ParsedMagnitudes ==
    {Small(c) : c \in {0, 1, 5, 123, 1234}}
        \cup UNION {{MagPred(PowersOfTwo[k]), PowersOfTwo[k],
                     MagAdd(PowersOfTwo[k], Small(1)),
                     MagAdd(PowersOfTwo[k], Small(123))} : k \in DOMAIN PowersOfTwo}
ParsedInts == {Integer(neg, mag) : neg \in BOOLEAN, mag \in ParsedMagnitudes}

\* Texts that are not the text of an integer: a fractional part, a
\* character that is neither a digit nor the sign, a lone sign, a space.
MalformedTexts ==
    {<<"1", ".", "5">>, <<"1", ".", "0">>, <<"1", "2", "a">>, <<"a">>, <<" ", "1">>,
     <<"1", " ">>, <<"-">>, <<"+">>, <<"1", "e", "3">>, <<"0", "x", "1", "0">>,
     <<"1", "_", "0">>, <<"-", "-", "1">>, <<"1", "-">>}

\* A call to make: the text, the kind of the target, and the integer the
\* text is the base-10 text of (number says whether there is one).
ParseInput(text, kind, number, n) ==
    [text |-> text, kind |-> kind, number |-> number, n |-> n, done |-> FALSE,
     result |-> [err |-> NoError, set |-> FALSE, value |-> <<>>]]

ParseInputs ==
    {ParseInput(FormatInt(n), kind, TRUE, n) : n \in ParsedInts, kind \in FixedWidthKinds}
        \cup {ParseInput(text, kind, FALSE, Integer(FALSE, Small(0))) :
                 text \in MalformedTexts \cup {EmptyText, <<"+", "5">>},
                 kind \in FixedWidthKinds \cup {"string"}}

InitParse ==
    /\ InitDispatch
    /\ NoWrappers
    /\ NoRoutes
    /\ NoFunctionMap
    /\ NoServing
    /\ NoDispatches
    /\ parsing \in ParseInputs

\* parseStringToSingleValue(text, &target)
ParseValue ==
    /\ ~parsing.done
    /\ parsing' = [parsing EXCEPT
                      !.done = TRUE,
                      !.result = parseStringToSingleValue(parsing.text,
                                     [pointer |-> TRUE, kind |-> parsing.kind])]
    /\ UNCHANGED <<dispatchVars, wrapperVars, registrarVars, registryVars, serveVars,
                   concurrentVars>>

NextParse == ParseValue

SpecParse == InitParse /\ [][NextParse]_vars

\* C22: for a target of a fixed-width integer kind and an integer n,
\* parsing the base-10 text of n succeeds exactly when n is a value of the
\* kind, and then stores n itself; a text with a fractional part or with a
\* character that is neither a digit nor the sign fails, and so does the
\* empty text; the empty text parsed into a string target succeeds and
\* stores the empty string.
C22_IntegerRoundTrip ==
    parsing.done =>
        /\ (parsing.number /\ parsing.kind \in FixedWidthKinds) =>
               /\ (parsing.result.err = NoError) = InRange(parsing.n, parsing.kind)
               /\ parsing.result.set = InRange(parsing.n, parsing.kind)
               /\ InRange(parsing.n, parsing.kind) =>
                      StoredInt(parsing.result.value) = parsing.n
        /\ (parsing.text \in MalformedTexts \cup {EmptyText}
              /\ parsing.kind \in FixedWidthKinds) =>
               /\ parsing.result.err # NoError
               /\ ~parsing.result.set
        /\ (parsing.text = EmptyText /\ parsing.kind = "string") =>
               /\ parsing.result.err = NoError
               /\ parsing.result.set
               /\ parsing.result.value = EmptyText

\* 2^8 has been parsed into an 8-bit unsigned target, which has failed.
C22_Witness ==
    /\ parsing.done
    /\ parsing.number
    /\ parsing.n = Integer(FALSE, Small(256))
    /\ parsing.text = <<"2", "5", "6">>
    /\ parsing.kind = "uint8"
    /\ parsing.result.err = NumError("ParseUint", <<"2", "5", "6">>, "value out of range")
    /\ ~parsing.result.set

\* -2^63 has been parsed into a 64-bit signed target and stored.
MinInt64Stored ==
    /\ parsing.done
    /\ parsing.text = <<"-", "9", "2", "2", "3", "3", "7", "2", "0", "3", "6", "8", "5",
                        "4", "7", "7", "5", "8", "0", "8">>
    /\ parsing.kind = "int64"
    /\ parsing.result.set
    /\ parsing.result.value = parsing.text

\* The empty text has been stored into a string target.
EmptyStringStored ==
    /\ parsing.done
    /\ parsing.text = EmptyText
    /\ parsing.kind = "string"
    /\ parsing.result.set

\* A text with a leading "+" is parsed into a signed target, and fails for
\* an unsigned one.
PlusSign ==
    (parsing.done /\ parsing.text = <<"+", "5">> /\ parsing.kind \in FixedWidthKinds) =>
        /\ parsing.result.set = (parsing.kind \in SignedKinds)
        /\ parsing.result.set => parsing.result.value = <<"5">>

-----------------------------------------------------------------------------
(* Requests dispatched to one route at the same time.  The server runs the  *)
(* route's function on a goroutine per request, so the steps of the         *)
(* dispatches interleave; each step of a dispatch is one action.  The       *)
(* descriptor and the registry of directives are shared by the dispatches;  *)
(* the metadata record of a dispatch is the cell reflect.New gave it.       *)

MaxDispatches == 2

\* An allocator that hands out the cell it handed out before.
NewReused(objects, value) ==
    IF objects = <<>> THEN [ref |-> 1, heap |-> <<value>>]
    ELSE [ref |-> 1, heap |-> [objects EXCEPT ![1] = value]]

\* reflect.New: a new cell holding value, and the reference to it.
New(objects, value) == [ref |-> Len(objects) + 1, heap |-> Append(objects, value)]

\* The handlers of the routes that are served.
ConcurrentHandlers ==
    {EndpointFunction(<<HTTPMethodPOST, FieldAuth, FieldPage>>),
     EndpointFunction(<<HTTPMethodPOST, FieldIdentifier, FieldBody>>)}

\* What the handlers return.
ConcurrentResults(f) ==
    {results \in HandlerResults(f) :
        \A i \in 1..Len(results) :
            results[i] \in HandlerErrors => results[i] \in {NoError, PlainError("some error")}}

\* The registry as init() leaves it: every built-in directive under its key.
BuiltinFunctionMap == [apiTagKey \in registeredFunctionMap |-> apiTagKey]

\* A dispatch that has not started.
NoDispatch ==
    [pc |-> "idle", req |-> NoRequest, inputValue |-> 0, idx |-> 1, invoked |-> FALSE,
     argument |-> <<>>, methodResults |-> <<>>, err |-> NoError, writes |-> <<>>]

\* A route has been registered for one of the handlers; no request has come.
InitConcurrent ==
    /\ \E f \in ConcurrentHandlers :
           /\ info = ParseRestfulFunction(f).info
           /\ method = f
    /\ parseError = ""
    /\ pc = "idle"
    /\ req = NoRequest
    /\ inputValue = <<>>
    /\ idx = 1
    /\ executed = <<>>
    /\ calls = 0
    /\ phases = <<>>
    /\ methodResults = <<>>
    /\ err = NoError
    /\ writes = <<>>
    /\ errorHandler = NoErrorHandler
    /\ handled = <<>>
    /\ NoWrappers
    /\ NoRoutes
    /\ functionMap = BuiltinFunctionMap
    /\ tagCalls = <<>>
    /\ NoServing
    /\ NoParsing
    /\ dispatches = [d \in 1..MaxDispatches |-> NoDispatch]
    /\ records = <<>>

\* The dispatch d moves on; everything but the dispatches and the records
\* is left as it is.
Dispatching(d, dispatch) ==
    /\ dispatches' = [dispatches EXCEPT ![d] = dispatch]
    /\ UNCHANGED <<dispatchVars, wrapperVars, registrarVars, registryVars, serveVars,
                   parseVars>>

\* functionWithError is called with a request: the metadata value is made.
ReceiveRequest(d, request) ==
    /\ dispatches[d].pc = "idle"
    /\ IF info.InMetadataPosition < 0
       THEN /\ Dispatching(d, [dispatches[d] EXCEPT !.pc = "invoke", !.req = request])
            /\ UNCHANGED records
       ELSE \E argumentType \in {info.FunctionValue.In[info.InMetadataPosition + 1]} :
                \E new \in {New(records, IF argumentType.kind = "pointer" THEN <<>>
                                         ELSE NewInputValue(info.FunctionValue.Metadata))} :
                    /\ records' = new.heap
                    /\ IF MetadataKind(argumentType) # "struct"
                       THEN Dispatching(d, [dispatches[d] EXCEPT
                                !.pc = "render", !.req = request, !.inputValue = new.ref,
                                !.err = PlainError("unexpected input type: "
                                                   \o MetadataKind(argumentType))])
                       ELSE Dispatching(d, [dispatches[d] EXCEPT
                                !.pc = "bind", !.req = request, !.inputValue = new.ref])

\* One round of the loop over info.InputFields in the dispatch d.
BindField(d) ==
    /\ dispatches[d].pc = "bind"
    /\ dispatches[d].idx <= Len(info.InputFields)
    /\ \E inputField \in {info.InputFields[dispatches[d].idx]} :
       \E bound \in {RunBinder(inputField.Function,
                               FieldByName(info.FunctionValue.Metadata, inputField.Name),
                               dispatches[d].req, info)} :
           IF \/ info.FunctionValue.In[info.InMetadataPosition + 1].kind = "pointer"
              \/ bound.panicked
           THEN /\ Dispatching(d, [dispatches[d] EXCEPT !.pc = "panic"])
                /\ UNCHANGED records
           ELSE /\ records' = IF bound.set
                              THEN [records EXCEPT ![dispatches[d].inputValue] =
                                       [@ EXCEPT ![inputField.Name] = bound.value]]
                              ELSE records
                /\ IF BindContinues(bound)
                   THEN Dispatching(d, [dispatches[d] EXCEPT !.idx = NextIndex(@)])
                   ELSE Dispatching(d, [dispatches[d] EXCEPT !.pc = "render",
                                                             !.err = bound.err])

\* The loop of the dispatch d is over and the handler is called with the
\* metadata value.
InvokeHandler(d, results) ==
    /\ dispatches[d].pc \in {"bind", "invoke"}
    /\ dispatches[d].pc = "bind" => dispatches[d].idx > Len(info.InputFields)
    /\ Dispatching(d, [dispatches[d] EXCEPT
           !.pc = "render",
           !.invoked = TRUE,
           !.argument = IF info.InMetadataPosition < 0 THEN <<>>
                        ELSE records[dispatches[d].inputValue],
           !.methodResults = results,
           !.err = FunctionError(results, info, errorHandler)])
    /\ UNCHANGED records

\* The response of the dispatch d is written.
RenderResponse(d) ==
    /\ dispatches[d].pc = "render"
    /\ Dispatching(d, [dispatches[d] EXCEPT
           !.pc = "done",
           !.writes = IF dispatches[d].err # NoError THEN ErrorWrites(dispatches[d].err)
                      ELSE SuccessWrites(dispatches[d].methodResults, info)])
    /\ UNCHANGED records

NextConcurrent ==
    \E d \in 1..MaxDispatches :
        \/ \E request \in Requests(info) : ReceiveRequest(d, request)
        \/ BindField(d)
        \/ \E results \in ConcurrentResults(info.FunctionValue) : InvokeHandler(d, results)
        \/ RenderResponse(d)

SpecConcurrent == InitConcurrent /\ [][NextConcurrent]_vars

RECURSIVE BindAll(_, _, _, _)
\* The metadata value a dispatch of the request alone builds: the binders
\* of inf.InputFields from the i-th on, run one after the other on record.
BindAll(inf, request, record, i) ==
    LET Then(inputField, bound) ==
            IF bound.panicked \/ ~BindContinues(bound) THEN record
            ELSE BindAll(inf, request,
                         IF bound.set THEN [record EXCEPT ![inputField.Name] = bound.value]
                         ELSE record,
                         NextIndex(i))
        Run(inputField) ==
            Then(inputField,
                 RunBinder(inputField.Function,
                           FieldByName(inf.FunctionValue.Metadata, inputField.Name),
                           request, inf))
    IN  IF i > Len(inf.InputFields) THEN record ELSE Run(inf.InputFields[i])

\* C21: whatever the interleaving of two dispatches of the same route, the
\* metadata value a handler invocation receives is the one its own request
\* alone gives, and the route descriptor and the registry of directives
\* stay as they were when the route was registered.
C21_DispatchesIsolated ==
    /\ \A d \in 1..MaxDispatches :
           dispatches[d].invoked =>
               dispatches[d].argument =
                   BindAll(info, dispatches[d].req,
                           NewInputValue(info.FunctionValue.Metadata), 1)
    /\ info = ParseRestfulFunction(method).info
    /\ functionMap = BuiltinFunctionMap

\* The first dispatch started after the second, with another request, and
\* its handler has been called while the second was still binding; the
\* two metadata values differ.
C21_Witness ==
    /\ dispatches[1].invoked
    /\ dispatches[2].pc = "bind"
    /\ dispatches[2].idx = 3
    /\ dispatches[2].inputValue < dispatches[1].inputValue
    /\ dispatches[1].req # dispatches[2].req
    /\ dispatches[1].argument # records[dispatches[2].inputValue]
    /\ records[dispatches[2].inputValue] # NewInputValue(info.FunctionValue.Metadata)

\* No step of a dispatch writes the descriptor or the registry.
SharedStateUntouched == [][info' = info /\ functionMap' = functionMap]_vars

\* Both handlers have been called, with different metadata values.
BothInvoked ==
    /\ dispatches[1].invoked
    /\ dispatches[2].invoked
    /\ dispatches[1].argument # dispatches[2].argument
    /\ dispatches[1].pc = "done"
    /\ dispatches[2].pc = "done"

====
